---- MODULE Spec2Model ----
(***************************************************************************)
(* Exam orchestration core of incllude/AI-Product-Hack (src/agents).       *)
(*                                                                         *)
(* Conventions of the model                                                *)
(*  - a Python dict is a TLA+ record / function with string keys; dict.get *)
(*    is the operator Get;                                                 *)
(*  - scores with one decimal are integers in tenths (7.0 is 70); criterion *)
(*    scores are the integers the regex extracts;                          *)
(*  - a text of the completion service is a record of the fields the       *)
(*    regular expressions of the parser extract from it, each field being  *)
(*    present or absent (None);                                            *)
(*  - datetime values are abstracted to the constant Time;                 *)
(*  - the graph executor runs the nodes of a compiled graph one after the  *)
(*    other along the edges declared with add_edge/add_conditional_edges,  *)
(*    handing the state returned by one node to the next;                  *)
(*  - a completion request that fails is seen by the agents in one of two  *)
(*    ways: chain.invoke raises (Failure), or YandexGPT._call returns its  *)
(*    error message as the completion (ServiceErrorText).                  *)
(*                                                                         *)
(* Specifications                                                          *)
(*  - Spec: the two orchestrators; SpecWf, SpecWfLive: the workflow graph; *)
(*  - SpecTheme: the theme agent's graph; SpecEval: the evaluation agent   *)
(*    called directly; SpecReconcile: _parse_detailed_evaluation alone;    *)
(*  - SpecQuestion: the question agent called directly; SpecDiagnose:      *)
(*    diagnose_exam_results on drawn lists; SpecPlan:                      *)
(*    get_next_bloom_level_requirements on drawn plans; SpecProcess:       *)
(*    several orchestrators hosted by one process.                         *)
(***************************************************************************)
EXTENDS Integers, Sequences, FiniteSets, TLC

\* ------------------------------------------------------------------ bounds
MaxQ == 2            \* largest max_questions an orchestrator is built with
MaxSessions == 1      \* calls of start_exam / invocations of a graph explored
MaxAttempts == 2      \* calls of start_exam on a reused orchestrator
MaxAsked == 2         \* questions generated within one session of the standard orchestrator
MaxErrors == 1        \* longest errors list a repeatable failing call may build
MaxHistory == 2      \* longest session_history list explored
MaxTotal == 30       \* largest total_questions a theme structure is asked for
MaxCriterion == 10    \* largest criterion score N of "N/10" in an evaluation reply
MaxReported == 130    \* largest reported aggregate, in tenths of a point
MaxEvalHistory == 2   \* longest evaluation_history of a lone evaluation agent
PlanQuestions == 6    \* total_questions of the plan a lone question agent holds
MaxGenerated == 7     \* longest question_history of a lone question agent
MaxScore == 100       \* largest total_score of a diagnosed evaluation, in tenths
MaxLevelCount == 2    \* largest count a plan walked on its own gives one level
PastEnd == 2          \* positions explored past the last question of a plan
MaxOrchestrators == 2 \* orchestrators one process hosts side by side
HostedQuestions == 1  \* max_questions of an orchestrator hosted beside another

\* ------------------------------------------------------------------ state
VARIABLES
    orchestrator_class,   \* the object under run: "standard" is
                          \* ExamOrchestratorLangGraph, "optimized" is
                          \* OptimizedExamOrchestratorLangGraph, "workflow" is
                          \* ExamWorkflowLangGraph, "theme_agent" is
                          \* ThemeAgentLangGraph, "evaluation_agent" is
                          \* EvaluationAgentLangGraph, "reconciler" is its
                          \* _parse_detailed_evaluation, "question_agent" is
                          \* QuestionAgentLangGraph, "diagnostic_agent" is
                          \* DiagnosticAgentLangGraph, "theme_plan" is a
                          \* plan walked by the theme agent, "process" is
                          \* a process hosting several orchestrators
    max_questions,        \* self.max_questions
    use_theme_structure,  \* self.use_theme_structure
    current_session,      \* self.current_session, EmptyDict for None
    session_history,      \* self.session_history, as session ids
    sessions_started,     \* number of ExamSession objects created
    question_agent,       \* workflow.question_agent
    evaluation_history,   \* workflow.evaluation_agent.evaluation_history
    diagnostic_history,   \* workflow.diagnostic_agent.diagnostic_history
    question_input,       \* the summaries last handed to generate_question
    ret,                  \* the last call: operation, returned dict, requests
    exam_state,           \* the ExamState a run of the workflow graph carries
    node,                 \* the node of the workflow graph to run next
    workflow_history,     \* workflow.workflow_history
    theme_state,          \* the ThemeState a run of the theme agent carries
    executed_nodes,       \* the nodes the graph has run since it was invoked
    shared_llm,           \* SharedLLMManager._llm, EmptyDict for None
    orchestrators         \* the orchestrators one process hosts side by side

orch_vars == <<orchestrator_class, max_questions, use_theme_structure,
               current_session, session_history, sessions_started,
               question_agent, evaluation_history, diagnostic_history,
               question_input, ret>>
wf_vars == <<exam_state, node, workflow_history>>
theme_vars == <<theme_state>>
trace_vars == <<executed_nodes>>
process_vars == <<shared_llm, orchestrators>>
vars == <<orch_vars, wf_vars, theme_vars, trace_vars, process_vars>>

\* ----------------------------------------------------------- basic values
None == "None"          \* Python None where the other values are strings
NoScore == -1           \* Python None where the other values are numbers
Unparsable == -2        \* a matched aggregate on which float() raises
Time == "datetime"
EmptyDict == << >>      \* {} ; also stands for None where a dict is expected

Get(d, k, default) == IF k \in DOMAIN d THEN d[k] ELSE default

Abs(x) == IF x < 0 THEN -x ELSE x

RECURSIVE SumSeq(_)
SumSeq(s) == IF s = << >> THEN 0 ELSE Head(s) + SumSeq(Tail(s))

\* Python round(): round half to even, n/d with d > 0 and n >= 0
RoundHalfEven(n, d) ==
    LET q == n \div d
        r == n % d
    IN  IF 2 * r > d \/ (2 * r = d /\ q % 2 = 1) THEN q + 1 ELSE q

\* ------------------------------------------------------------------ texts
\* A question text: what lower() maps it to, and its length.
QText(base, caps, len) == [base |-> base, caps |-> caps, len |-> len]
Lower(t) == [t EXCEPT !.caps = FALSE]
NotFoundText == [base |-> 0, caps |-> TRUE, len |-> 16]   \* "Вопрос не найден"
ErrorQuestionText == [base |-> -1, caps |-> TRUE, len |-> 24]

\* not student_answer or student_answer.strip() == ""
IsBlankUnstripped(a) == a \in {None, ""}

IsBlank(a) == a \in {None, "", " "}

\* --------------------------------------------------- completion service
\* chain.invoke raising inside a node (the node's except branch)
Failure == [ok |-> FALSE]
LLMFailed(resp) == ~resp.ok

\* YandexGPT._call on a failed request: the exception is caught and the text
\* "Ошибка YandexGPT: ..." is returned as the completion.  For the evaluation
\* agent it is a reply in which no field of the report is matched.
ServiceErrorText ==
    [ok |-> TRUE, empty |-> FALSE, service_error |-> TRUE,
     correctness |-> NoScore, completeness |-> NoScore, understanding |-> NoScore,
     total |-> NoScore, strengths |-> None, weaknesses |-> None]

\* The same text returned to the question agent: no ВОПРОС and no
\* КЛЮЧЕВЫЕ_МОМЕНТЫ field is matched in it.
QuestionServiceErrorText ==
    [ok |-> TRUE, empty |-> FALSE, service_error |-> TRUE,
     question |-> QText(0, FALSE, 0), key_points |-> "", bloom_level_match |-> FALSE]

\* ========================================================================
\* EvaluationAgentLangGraph (evaluation_agent.py)
\* ========================================================================

\* _categorize_score, the score given in tenths
categorize_score(score) ==
    IF score >= 90 THEN "excellent"
    ELSE IF score >= 70 THEN "good"
    ELSE IF score >= 50 THEN "satisfactory"
    ELSE IF score >= 30 THEN "weak"
    ELSE "poor"

\* round(x, 1) on the doubles the reconciler produces.  x = n/20 with n odd
\* lies halfway between two tenths and is not a double: Python rounds the
\* nearest double, up for the n listed here and down for the other odd n
\* (IEEE-754 binary64, n up to 279).
TieRoundsUp ==
    {1, 9, 11, 13, 15, 21, 27, 31, 35, 37, 47, 49, 55, 57, 59, 67, 69, 75,
     77, 79, 83, 89, 93, 95, 99, 103, 109, 113, 115, 119, 123, 129, 133,
     135, 139, 143, 149, 153, 155, 159, 161, 163, 171, 173, 175, 181, 183,
     191, 193, 195, 201, 203, 211, 213, 215, 221, 223, 231, 233, 235, 241,
     243, 251, 253, 255, 261, 263, 271, 273, 275}

\* round(score, 1) in tenths, the score given in sixtieths of a point
round1(score60) ==
    LET q == score60 \div 6
        r == score60 % 6
    IN  IF r > 3 THEN q + 1
        ELSE IF r < 3 THEN q
        ELSE IF (score60 \div 3) \in TieRoundsUp THEN q + 1 ELSE q

\* calculated_score = sum(criteria_scores) / len(criteria_scores), in
\* sixtieths of a point
calculated_score_with_history(criteria) ==
    20 * SumSeq(criteria) + 60 * Len(evaluation_history)

calculated_score(criteria) == 20 * SumSeq(criteria)

\* score_difference > 2.0, both scores in sixtieths of a point
score_difference_from_two(llm60, calculated60) == Abs(llm60 - calculated60) >= 120

score_difference_over_two(llm60, calculated60) == Abs(llm60 - calculated60) > 120

\* the check after the choice: every criterion 0 and a total above 0
zero_criteria_unchecked(criteria, final60) == FALSE

zero_criteria_contradiction(criteria, final60) ==
    (\A i \in 1..Len(criteria) : criteria[i] = 0) /\ final60 > 0

\* evaluation_metadata['score_method']
score_method_by_criteria(llm_final_score) == "criteria_average"

score_method(llm_final_score) ==
    IF llm_final_score = NoScore THEN "criteria_average" ELSE "weighted_average"

\* _parse_detailed_evaluation: resp.correctness/completeness/understanding
\* are the integers matched by (\d+)/10 or NoScore; resp.total is the value
\* of ИТОГОВАЯ_ОЦЕНКА in tenths, Unparsable when float() raises, or NoScore.
\* Scores are carried in sixtieths of a point, in which the mean of three
\* integers and its average with a value in tenths are whole numbers.
parse_detailed_evaluation(resp) ==
    LET correctness_score == IF resp.correctness = NoScore THEN 0 ELSE resp.correctness
        completeness_score == IF resp.completeness = NoScore THEN 0 ELSE resp.completeness
        understanding_score == IF resp.understanding = NoScore THEN 0 ELSE resp.understanding
        criteria == <<correctness_score, completeness_score, understanding_score>>
        calculated60 == calculated_score(criteria)
        llm_final_score == IF resp.total \in {NoScore, Unparsable} THEN NoScore ELSE resp.total
        llm60 == IF llm_final_score = NoScore THEN 0 ELSE 6 * llm_final_score
        big == llm_final_score # NoScore /\ score_difference_over_two(llm60, calculated60)
        first60 == IF llm_final_score = NoScore THEN calculated60
                   ELSE IF big THEN calculated60
                   ELSE (llm60 + calculated60) \div 2
        allzero == zero_criteria_contradiction(criteria, first60)
        final60 == IF allzero THEN 0 ELSE first60
        warning == IF allzero THEN "all_criteria_zero"
                   ELSE IF big THEN "mismatch"
                   ELSE None
    IN  [type |-> "detailed",
         total_score |-> round1(final60),
         criteria_scores |-> [correctness |-> correctness_score,
                              completeness |-> completeness_score,
                              understanding |-> understanding_score],
         strengths |-> IF resp.strengths = None THEN "" ELSE resp.strengths,
         weaknesses |-> IF resp.weaknesses = None THEN "" ELSE resp.weaknesses,
         raw_response |-> resp,
         evaluation_metadata |->
             [calculated_score |-> round1(calculated60),
              llm_final_score |-> llm_final_score,
              consistency_warning |-> warning,
              score_method |-> score_method(llm_final_score)]]

\* _handle_empty_answer_node
empty_result ==
    [type |-> "empty", total_score |-> 0, comment |-> "no_answer_given",
     feedback |-> "student_gave_no_answer", raw_response |-> "EMPTY_ANSWER"]

\* create_evaluation_summary(evaluation_result, question_data)
create_evaluation_summary(evaluation_result, question_data) ==
    LET cs == Get(evaluation_result, "criteria_scores", EmptyDict)
    IN  [total_score |-> Get(evaluation_result, "total_score", 0),
         criteria_scores |-> cs,
         strengths |-> Get(evaluation_result, "strengths", ""),
         weaknesses |-> Get(evaluation_result, "weaknesses", ""),
         bloom_level |-> IF question_data = EmptyDict THEN "unknown"
                         ELSE Get(question_data, "bloom_level", None),
         question_type |-> IF question_data = EmptyDict THEN "unknown"
                           ELSE Get(question_data, "question_type", None),
         topic_level |-> IF question_data = EmptyDict THEN "unknown"
                         ELSE Get(question_data, "topic_level", None),
         evaluation_type |-> Get(evaluation_result, "type", "detailed"),
         performance_indicators |->
             [correctness_level |-> categorize_score(10 * Get(cs, "correctness", 0)),
              completeness_level |-> categorize_score(10 * Get(cs, "completeness", 0)),
              understanding_level |-> categorize_score(10 * Get(cs, "understanding", 0)),
              structure_level |-> categorize_score(10 * Get(cs, "structure", 0)),
              overall_level |-> categorize_score(Get(evaluation_result, "total_score", 0))]]

\* get_evaluation_summaries_for_question_agent: one summary per entry of
\* the agent's evaluation_history
get_evaluation_summaries_for_question_agent(history) ==
    [i \in 1..Len(history) |->
        create_evaluation_summary(history[i].evaluation, history[i].question_metadata)]

\* evaluate_answer: the graph validate_input -> (handle_empty_answer |
\* detailed_evaluation -> parse_evaluation) -> create_summary ->
\* save_to_history.  resp is the outcome of the one completion request of
\* detailed_evaluation.  Yields the returned dict, the agent's history and
\* the number of completion requests issued.
evaluate_answer(history, question, student_answer, resp) ==
    LET ErrorResult(e, n) ==
            [result |-> [error |-> e, type |-> "error", total_score |-> 0],
             history |-> history, requests |-> n]
        Saved(r, n) ==
            [result |-> r,
             history |-> Append(history,
                 [question |-> question, answer |-> student_answer,
                  evaluation |-> r, question_metadata |-> [detailed |-> TRUE]]),
             requests |-> n]
    IN  IF question.len = 0 THEN ErrorResult("no_question", 0)
        ELSE IF IsBlank(student_answer) THEN Saved(empty_result, 0)
        ELSE IF LLMFailed(resp) THEN ErrorResult("no_evaluation_result", 1)
        ELSE IF resp.empty THEN ErrorResult("no_evaluation_result", 1)
        ELSE Saved(parse_detailed_evaluation(resp), 1)

\* ========================================================================
\* ThemeAgentLangGraph (theme_agent.py)
\* ========================================================================

\* _create_bloom_sequence
bloom_sequence == <<"remember", "understand", "apply", "analyze", "evaluate", "create">>

\* bloom_levels[level]['weight'], in percent
bloom_weight ==
    [remember |-> 15, understand |-> 25, apply |-> 25,
     analyze |-> 20, evaluate |-> 10, create |-> 5]

priority_levels == <<"understand", "apply", "analyze">>

\* sum(distribution.values())
DistTotal(distribution) ==
    SumSeq([i \in 1..Len(bloom_sequence) |-> distribution[bloom_sequence[i]]])

\* the correction loop of _distribute_questions_node over priority_levels
RECURSIVE adjust_distribution(_, _, _)
adjust_distribution(distribution, diff, levels) ==
    IF levels = << >> \/ diff = 0 THEN distribution
    ELSE LET level == Head(levels)
         IN  IF diff > 0
             THEN adjust_distribution([distribution EXCEPT ![level] = @ + 1],
                                      diff - 1, Tail(levels))
             ELSE IF distribution[level] > 1
             THEN adjust_distribution([distribution EXCEPT ![level] = @ - 1],
                                      diff + 1, Tail(levels))
             ELSE adjust_distribution(distribution, diff, Tail(levels))

\* the count of a level without the floor of one question
level_count_unfloored(total_questions, level) ==
    RoundHalfEven(total_questions * bloom_weight[level], 100)

\* max(1, round(total_questions * weight)) for one level; the weights are
\* hundredths, so the product is rounded exactly
level_count(total_questions, level) ==
    LET rounded == RoundHalfEven(total_questions * bloom_weight[level], 100)
    IN  IF rounded > 1 THEN rounded ELSE 1

\* _distribute_questions_node: the questions_distribution of the plan
distribute_questions(total_questions) ==
    LET distribution == [level \in DOMAIN bloom_weight |->
                            level_count(total_questions, level)]
        current_total == DistTotal(distribution)
    IN  IF current_total # total_questions
        THEN adjust_distribution(distribution, total_questions - current_total,
                                 priority_levels)
        ELSE distribution

\* create_question_guidelines: guidelines[level] for every level the
\* distribution gives a count above zero
question_guidelines_for(distribution) ==
    [level \in {l \in DOMAIN distribution : distribution[l] > 0} |->
        [bloom_level |-> level, question_count |-> distribution[level]]]

\* get_question_requirements_for_level: the requirements dict, written as its
\* bloom_level, or the error dict of a level without guidelines
NoGuidelines == "no_guidelines"

get_question_requirements_for_level(curriculum, bloom_level) ==
    IF bloom_level \notin DOMAIN curriculum.question_guidelines THEN NoGuidelines
    ELSE curriculum.question_guidelines[bloom_level].bloom_level

\* get_next_bloom_level_requirements: the level of the 0-based position, or
\* None when the position is past the plan
RECURSIVE level_walk(_, _, _, _)
level_walk(curriculum, current_position, position_counter, levels) ==
    IF levels = << >> THEN None
    ELSE IF current_position < position_counter + curriculum.questions_distribution[Head(levels)]
    THEN get_question_requirements_for_level(curriculum, Head(levels))
    ELSE level_walk(curriculum, current_position,
                    position_counter + curriculum.questions_distribution[Head(levels)],
                    Tail(levels))

get_next_bloom_level_requirements_one_based(curriculum, current_position) ==
    level_walk(curriculum, current_position - 1, 0, curriculum.bloom_sequence)

get_next_bloom_level_requirements(curriculum, current_position) ==
    level_walk(curriculum, current_position, 0, curriculum.bloom_sequence)

\* generate_theme_structure: analyze_theme issues one completion request,
\* create_question_guidelines one per level; _validate_structure rejects a
\* plan whose counts do not sum to total_questions.  llm_ok: no request fails.
generate_theme_structure(total_questions, llm_ok) ==
    LET distribution == distribute_questions(total_questions)
    IN  IF total_questions <= 0 THEN [error |-> "bad_question_count"]
        ELSE IF ~llm_ok THEN [error |-> "theme_llm_failure"]
        ELSE IF DistTotal(distribution) # total_questions
        THEN [error |-> "structure_invalid"]
        ELSE [total_questions |-> total_questions,
              questions_distribution |-> distribution,
              question_guidelines |-> question_guidelines_for(distribution),
              bloom_sequence |-> bloom_sequence]

\* ========================================================================
\* QuestionAgentLangGraph (question_agent.py)
\* ========================================================================

\* _map_bloom_to_topic_level
map_bloom_to_topic_level(bloom_level) ==
    IF bloom_level \in {"remember", "understand"} THEN "basic"
    ELSE IF bloom_level \in {"apply", "analyze"} THEN "intermediate"
    ELSE IF bloom_level \in {"evaluate", "create"} THEN "advanced"
    ELSE "basic"

\* _determine_question_type: state["question_type"]
determine_question_type_first_initial(agent, question_number, evaluation_summaries) ==
    IF question_number = 1 /\ evaluation_summaries = << >> THEN "initial"
    ELSE IF agent.theme_structure # EmptyDict THEN "theme_guided"
    ELSE "contextual"

determine_question_type(agent, question_number, evaluation_summaries) ==
    IF agent.theme_structure # EmptyDict THEN "theme_guided"
    ELSE IF question_number = 1 \/ evaluation_summaries = << >> THEN "initial"
    ELSE "contextual"

\* _get_next_question_requirements: the level the plan gives the agent's
\* position, None without a plan or past its end
get_next_question_requirements(agent) ==
    IF agent.theme_structure = EmptyDict THEN None
    ELSE get_next_bloom_level_requirements(agent.theme_structure,
                                           agent.current_theme_position)

\* the prompt template the completion request is built on:
\* _decide_question_path, and the fallback of
\* _generate_theme_guided_question_node to the contextual node
question_template(agent, question_number, evaluation_summaries) ==
    LET question_type == determine_question_type(agent, question_number,
                                                 evaluation_summaries)
    IN  IF /\ question_type = "theme_guided"
           /\ get_next_question_requirements(agent) \in {None, NoGuidelines}
        THEN "contextual"
        ELSE question_type

\* the variables chain.invoke fills the template with (subject, difficulty
\* and topic_context, fixed at construction, left out)
prompt_inputs(agent, template, question_number, evaluation_summaries) ==
    IF template = "initial" THEN EmptyDict
    ELSE IF template = "contextual"
    THEN [question_number |-> question_number,
          \* _format_previous_questions
          previous_questions |->
              [i \in 1..Len(agent.question_history) |-> agent.question_history[i].question],
          evaluation_characteristics |-> evaluation_summaries]
    ELSE [question_requirements |-> get_next_question_requirements(agent),
          evaluation_characteristics |-> evaluation_summaries]

\* _validate_question_node: the list validation_errors
validate_question_case_sensitive(agent, question_data) ==
    LET e1 == IF question_data.question.len = 0 \/ question_data.question = NotFoundText
              THEN <<"no_question_text">> ELSE << >>
        e2 == IF question_data.question.len < 10 THEN <<"too_short">> ELSE << >>
        e3 == IF question_data.key_points = "" THEN <<"no_key_points">> ELSE << >>
        e4 == IF \E i \in 1..Len(agent.question_history) :
                    agent.question_history[i].question = question_data.question
              THEN <<"repeated">> ELSE << >>
    IN  e1 \o e2 \o e3 \o e4

validate_question(agent, question_data) ==
    LET e1 == IF question_data.question.len = 0 \/ question_data.question = NotFoundText
              THEN <<"no_question_text">> ELSE << >>
        e2 == IF question_data.question.len < 10 THEN <<"too_short">> ELSE << >>
        e3 == IF question_data.key_points = "" THEN <<"no_key_points">> ELSE << >>
        e4 == IF \E i \in 1..Len(agent.question_history) :
                    Lower(agent.question_history[i].question) = Lower(question_data.question)
              THEN <<"repeated">> ELSE << >>
    IN  e1 \o e2 \o e3 \o e4

\* _validate_question_node on an accepted question: the position in the plan
advance_theme_position_by_two(agent) ==
    IF agent.theme_structure # EmptyDict THEN agent.current_theme_position + 2
    ELSE agent.current_theme_position

advance_theme_position(agent) ==
    IF agent.theme_structure # EmptyDict THEN agent.current_theme_position + 1
    ELSE agent.current_theme_position

\* generate_question: the graph determine_question_type -> generate_* ->
\* parse_question_response -> validate_question.  resp is the outcome of the
\* one completion request.  Yields the returned dict and the agent's state.
generate_question(agent, question_number, evaluation_summaries, resp) ==
    LET template == question_template(agent, question_number, evaluation_summaries)
        prompt == prompt_inputs(agent, template, question_number, evaluation_summaries)
        \* state["theme_requirements"], set by the theme-guided request only
        theme_requirements ==
            IF template = "theme_guided" THEN get_next_question_requirements(agent)
            ELSE None
        ErrorResult(e) ==
            [result |-> [error |-> e, question |-> ErrorQuestionText, key_points |-> "",
                         question_number |-> question_number],
             agent |-> agent, requests |-> 1, template |-> template, prompt |-> prompt]
        base_data ==
            [question |-> IF resp.question.len = 0 THEN NotFoundText ELSE resp.question,
             key_points |-> resp.key_points,
             topic_level |-> "basic",
             question_number |-> question_number]
        question_data ==
            IF theme_requirements # None
            THEN [bloom_level |-> theme_requirements,
                  topic_level |-> map_bloom_to_topic_level(theme_requirements)]
                 @@ base_data
            ELSE base_data
    IN  IF LLMFailed(resp) THEN ErrorResult("generation_failed")
        ELSE IF resp.empty THEN ErrorResult("no_question_data")
        \* УРОВЕНЬ_БЛУМА matched without theme requirements: None.get raises
        ELSE IF resp.bloom_level_match /\ theme_requirements = None
        THEN ErrorResult("parse_error")
        ELSE IF validate_question(agent, question_data) # << >>
        THEN ErrorResult("validation_errors")
        ELSE [result |-> question_data,
              agent |-> [agent EXCEPT
                  !.current_theme_position = advance_theme_position(agent),
                  !.question_history = Append(@, question_data)],
              requests |-> 1, template |-> template, prompt |-> prompt]

\* ========================================================================
\* DiagnosticAgentLangGraph (diagnostic_agent.py)
\* ========================================================================

\* _calculate_statistics_node (scores in tenths)
calculate_statistics(evaluations) ==
    LET scores == [i \in 1..Len(evaluations) |-> Get(evaluations[i], "total_score", 0)]
    IN  [total_score |-> SumSeq(scores),
         max_score |-> Len(scores) * 100,
         individual_scores |-> scores]

\* sum(scores) on doubles.  The score lists, in tenths, whose true sum makes
\* the percentage 60, 75 or 90 and whose sum in binary64 falls just below
\* it: all such lists of three scores from 0.0 to 10.0.  Lists of one or two
\* such scores have none, and the longer lists explored here hold only the
\* scores 0.0 and 7.0, whose sums are exact.
SumRoundsBelow ==
    {<<66, 97, 17>>, <<66, 97, 62>>, <<71, 92, 17>>, <<71, 92, 62>>,
     <<71, 97, 12>>, <<71, 97, 57>>, <<76, 87, 17>>, <<76, 87, 62>>,
     <<76, 92, 12>>, <<76, 92, 57>>, <<76, 97, 7>>, <<76, 97, 52>>,
     <<76, 97, 97>>, <<81, 82, 17>>, <<81, 82, 62>>, <<81, 87, 12>>,
     <<81, 87, 57>>, <<81, 92, 7>>, <<81, 92, 52>>, <<81, 92, 97>>,
     <<81, 97, 2>>, <<81, 97, 47>>, <<81, 97, 92>>, <<82, 81, 17>>,
     <<82, 81, 62>>, <<82, 86, 12>>, <<82, 86, 57>>, <<82, 91, 7>>,
     <<82, 91, 52>>, <<82, 91, 97>>, <<82, 96, 2>>, <<82, 96, 47>>,
     <<82, 96, 92>>, <<86, 82, 12>>, <<86, 82, 57>>, <<86, 87, 7>>,
     <<86, 87, 52>>, <<86, 87, 97>>, <<86, 92, 2>>, <<86, 92, 47>>,
     <<86, 92, 92>>, <<86, 97, 42>>, <<86, 97, 87>>, <<87, 76, 17>>,
     <<87, 76, 62>>, <<87, 81, 12>>, <<87, 81, 57>>, <<87, 86, 7>>,
     <<87, 86, 52>>, <<87, 86, 97>>, <<87, 91, 2>>, <<87, 91, 47>>,
     <<87, 91, 92>>, <<87, 96, 42>>, <<87, 96, 87>>, <<91, 82, 7>>,
     <<91, 82, 52>>, <<91, 82, 97>>, <<91, 87, 2>>, <<91, 87, 47>>,
     <<91, 87, 92>>, <<91, 92, 42>>, <<91, 92, 87>>, <<91, 97, 37>>,
     <<91, 97, 82>>, <<92, 71, 17>>, <<92, 71, 62>>, <<92, 76, 12>>,
     <<92, 76, 57>>, <<92, 81, 7>>, <<92, 81, 52>>, <<92, 81, 97>>,
     <<92, 86, 2>>, <<92, 86, 47>>, <<92, 86, 92>>, <<92, 91, 42>>,
     <<92, 91, 87>>, <<92, 96, 37>>, <<92, 96, 82>>, <<96, 82, 2>>,
     <<96, 82, 47>>, <<96, 82, 92>>, <<96, 87, 42>>, <<96, 87, 87>>,
     <<96, 92, 37>>, <<96, 92, 82>>, <<96, 97, 32>>, <<96, 97, 77>>,
     <<97, 66, 17>>, <<97, 66, 62>>, <<97, 71, 12>>, <<97, 71, 57>>,
     <<97, 76, 7>>, <<97, 76, 52>>, <<97, 76, 97>>, <<97, 81, 2>>,
     <<97, 81, 47>>, <<97, 81, 92>>, <<97, 86, 42>>, <<97, 86, 87>>,
     <<97, 91, 37>>, <<97, 91, 82>>, <<97, 96, 32>>, <<97, 96, 77>>}

\* percentage >= bound, for percentage = (total_score / max_score) * 100
percentage_at_least(stats, bound) ==
    /\ stats.total_score * 100 >= bound * stats.max_score
    /\ ~(/\ stats.total_score * 100 = bound * stats.max_score
         /\ stats.individual_scores \in SumRoundsBelow)

\* _determine_grade_node
determine_grade(stats) ==
    IF stats.max_score = 0 THEN "undefined"
    ELSE IF percentage_at_least(stats, 90) THEN "excellent"
    ELSE IF percentage_at_least(stats, 75) THEN "good"
    ELSE IF percentage_at_least(stats, 60) THEN "satisfactory"
    ELSE IF percentage_at_least(stats, 40) THEN "poor"
    ELSE "critical"

\* diagnose_exam_results: validate_diagnostic_input, then analyze_patterns
\* (request 1) and generate_final_report (request 2), every later node a
\* no-op once an error is set.  Yields the returned dict, diagnostic_history
\* and the number of completion requests issued.
diagnose_exam_results_any_lengths(history, questions, evaluations, resp1, resp2) ==
    LET ErrorResult(e, n) ==
            [result |-> [error |-> e], history |-> history, requests |-> n]
        stats == calculate_statistics(evaluations)
        diagnostic_result ==
            [statistics |-> stats,
             grade_info |-> [grade |-> determine_grade(stats)],
             recommendations |-> "recommendations",
             critical_areas |-> "critical_areas"]
    IN  IF questions = << >> \/ evaluations = << >> THEN ErrorResult("insufficient_data", 0)
        ELSE IF LLMFailed(resp1) THEN ErrorResult("pattern_analysis_failed", 1)
        ELSE IF LLMFailed(resp2) THEN ErrorResult("final_report_failed", 2)
        ELSE [result |-> diagnostic_result,
              history |-> Append(history, diagnostic_result),
              requests |-> 2]

diagnose_exam_results(history, questions, evaluations, resp1, resp2) ==
    LET ErrorResult(e, n) ==
            [result |-> [error |-> e], history |-> history, requests |-> n]
        stats == calculate_statistics(evaluations)
        diagnostic_result ==
            [statistics |-> stats,
             grade_info |-> [grade |-> determine_grade(stats)],
             recommendations |-> "recommendations",
             critical_areas |-> "critical_areas"]
    IN  IF questions = << >> \/ evaluations = << >> THEN ErrorResult("insufficient_data", 0)
        ELSE IF Len(questions) # Len(evaluations) THEN ErrorResult("count_mismatch", 0)
        ELSE IF LLMFailed(resp1) THEN ErrorResult("pattern_analysis_failed", 1)
        ELSE IF LLMFailed(resp2) THEN ErrorResult("final_report_failed", 2)
        ELSE [result |-> diagnostic_result,
              history |-> Append(history, diagnostic_result),
              requests |-> 2]

\* ========================================================================
\* ExamSession (base.py) and the two orchestrators
\* ========================================================================
\* ExamSession(...) as start_exam constructs it
ExamSession(session_id, max_q, use_theme) ==
    [session_id |-> session_id,
     status |-> "in_progress",
     start_time |-> Time,
     end_time |-> None,
     max_questions |-> max_q,
     use_theme_structure |-> use_theme,
     current_question_number |-> 0,
     theme_structure |-> EmptyDict,
     questions |-> << >>,
     evaluations |-> << >>,
     evaluation_summaries |-> << >>,
     diagnostic_result |-> EmptyDict,
     messages |-> << >>,
     errors |-> << >>]

\* QuestionAgentLangGraph.__init__ as _initialize_agents calls it
NewQuestionAgent ==
    [theme_structure |-> EmptyDict, current_theme_position |-> 0, question_history |-> << >>]

IsError(value) == "error" \in DOMAIN value

Return(op, value, requests) == [op |-> op, value |-> value, requests |-> requests]

\* inputs explored on the orchestrators
\* The completion service's outcomes for a question request: a failure, the
\* error text, a question not asked before, one with no key points, one of 9
\* characters, and (once a question is in the agent's history) the first
\* question again in other letter case.
QuestionResponses(agent) ==
    LET fresh == QText(Len(agent.question_history) + 1, FALSE, 20)
    IN  {Failure, QuestionServiceErrorText}
        \cup {[ok |-> TRUE, empty |-> FALSE, question |-> fresh, key_points |-> kp,
               bloom_level_match |-> FALSE] : kp \in {"key_points", ""}}
        \cup {[ok |-> TRUE, empty |-> FALSE, question |-> [fresh EXCEPT !.len = 9],
               key_points |-> "key_points", bloom_level_match |-> FALSE]}
        \cup {[ok |-> TRUE, empty |-> FALSE,
               question |-> [agent.question_history[i].question EXCEPT !.caps = TRUE],
               key_points |-> "key_points", bloom_level_match |-> FALSE] :
                   i \in {j \in {1} : j <= Len(agent.question_history)}}
Answers == {"", "answer"}
EvaluationResponses(answer) ==
    {Failure, ServiceErrorText}
    \cup {[ok |-> TRUE, empty |-> FALSE, service_error |-> FALSE,
           correctness |-> 7, completeness |-> 7,
           understanding |-> 7, total |-> NoScore, strengths |-> st,
           weaknesses |-> "gaps"] : st \in {"clear", answer}}
DiagnosticResponses == {Failure, [ok |-> TRUE]}

Init ==
    /\ orchestrator_class \in {"standard", "optimized"}
    /\ shared_llm = EmptyDict
    /\ orchestrators = << >>
    /\ executed_nodes = << >>
    /\ max_questions \in 1..MaxQ
    /\ use_theme_structure \in BOOLEAN
    /\ current_session = EmptyDict
    /\ session_history = << >>
    /\ sessions_started = 0
    /\ question_agent = NewQuestionAgent
    /\ evaluation_history = << >>
    /\ diagnostic_history = << >>
    /\ question_input = << >>
    /\ ret = Return("init", EmptyDict, 0)
    /\ exam_state = EmptyDict
    /\ node = "idle"
    /\ workflow_history = << >>
    /\ theme_state = EmptyDict

\* ---------------------------------------------- ExamOrchestratorLangGraph
\* start_exam, callable while fewer than `attempts' sessions were created
start_exam_attempt(attempts) ==
    /\ orchestrator_class = "standard"
    /\ UNCHANGED <<process_vars, trace_vars>>
    /\ UNCHANGED <<wf_vars, theme_vars>>
    /\ sessions_started < attempts
    /\ \E llm_ok \in BOOLEAN :
        LET session == ExamSession(sessions_started + 1, max_questions, use_theme_structure)
            theme_structure == generate_theme_structure(max_questions, llm_ok)
        IN  /\ use_theme_structure \/ llm_ok
            /\ current_session' =
                IF ~use_theme_structure THEN session
                ELSE IF ~IsError(theme_structure)
                THEN [session EXCEPT !.theme_structure = theme_structure,
                                     !.messages = Append(@, "theme_structure_created")]
                ELSE [session EXCEPT !.errors = Append(@, "theme_error")]
            /\ ret' = Return("start_exam", [status |-> "started"],
                             IF ~use_theme_structure THEN 0
                             ELSE IF llm_ok THEN 7 ELSE 1)
    /\ sessions_started' = sessions_started + 1
    /\ UNCHANGED <<orchestrator_class, max_questions, use_theme_structure, session_history,
                   question_agent, evaluation_history, diagnostic_history, question_input>>

start_exam ==
    start_exam_attempt(MaxSessions)

\* the limit test accepting one question too many
max_questions_reached_late(current_question_number) ==
    current_question_number > max_questions + 1

\* get_next_question: current_question_number > self.max_questions
max_questions_reached(current_question_number) ==
    current_question_number > max_questions

get_next_question ==
    /\ orchestrator_class = "standard"
    /\ UNCHANGED <<process_vars, trace_vars>>
    /\ UNCHANGED <<wf_vars, theme_vars>>
    /\ IF current_session = EmptyDict
       THEN /\ ret' = Return("get_next_question", [error |-> "exam_not_started"], 0)
            /\ UNCHANGED <<current_session, question_agent, question_input>>
       ELSE IF current_session.status # "in_progress"
       THEN /\ ret' = Return("get_next_question", [error |-> "exam_not_active"], 0)
            /\ UNCHANGED <<current_session, question_agent, question_input>>
       ELSE IF max_questions_reached(Len(current_session.questions) + 1)
       THEN /\ ret' = Return("get_next_question", [message |-> "max_questions_reached"], 0)
            /\ UNCHANGED <<current_session, question_agent, question_input>>
       ELSE \E resp \in QuestionResponses(question_agent) :
            LET current_question_number == Len(current_session.questions) + 1
                evaluation_summaries ==
                    get_evaluation_summaries_for_question_agent(evaluation_history)
                g == generate_question(question_agent, current_question_number,
                                       evaluation_summaries, resp)
                question_data ==
                    [privacy_protected |-> TRUE,
                     evaluation_summaries_count |-> Len(evaluation_summaries)] @@ g.result
            IN  /\ Len(current_session.questions) < MaxAsked
                /\ question_input' = evaluation_summaries
                /\ question_agent' = g.agent
                /\ IF IsError(g.result)
                   THEN /\ Len(current_session.errors) < MaxErrors
                        /\ current_session' =
                             [current_session EXCEPT !.errors = Append(@, "question_error")]
                        /\ ret' = Return("get_next_question", [error |-> g.result.error],
                                         g.requests)
                   ELSE /\ current_session' =
                             [current_session EXCEPT
                                 !.questions = Append(@, question_data),
                                 !.current_question_number = current_question_number]
                        /\ ret' = Return("get_next_question", question_data, g.requests)
    /\ UNCHANGED <<orchestrator_class, max_questions, use_theme_structure, session_history,
                   sessions_started, evaluation_history, diagnostic_history>>

submit_answer ==
    /\ orchestrator_class = "standard"
    /\ UNCHANGED <<process_vars, trace_vars>>
    /\ UNCHANGED <<wf_vars, theme_vars>>
    /\ IF current_session = EmptyDict
       THEN /\ ret' = Return("submit_answer", [error |-> "exam_not_started"], 0)
            /\ UNCHANGED <<current_session, evaluation_history>>
       ELSE IF current_session.status # "in_progress"
       THEN /\ ret' = Return("submit_answer", [error |-> "exam_not_active"], 0)
            /\ UNCHANGED <<current_session, evaluation_history>>
       ELSE IF current_session.questions = << >>
       THEN /\ ret' = Return("submit_answer", [error |-> "no_active_question"], 0)
            /\ UNCHANGED <<current_session, evaluation_history>>
       ELSE IF Len(current_session.evaluations) >= Len(current_session.questions)
       THEN /\ ret' = Return("submit_answer", [error |-> "already_answered"], 0)
            /\ UNCHANGED <<current_session, evaluation_history>>
       ELSE \E answer \in Answers : \E resp \in EvaluationResponses(answer) :
            LET current_question ==
                    current_session.questions[Len(current_session.questions)]
                e == evaluate_answer(evaluation_history, current_question.question,
                                     answer, resp)
                evaluation_result ==
                    [answer |-> answer,
                     question_number |-> current_question.question_number,
                     question_metadata |->
                         [bloom_level |-> Get(current_question, "bloom_level", None),
                          question_type |-> Get(current_question, "question_type", "unknown"),
                          topic_level |-> Get(current_question, "topic_level", None)]]
                    @@ e.result
                evaluation_summary ==
                    create_evaluation_summary(evaluation_result, current_question)
            IN  /\ IsBlank(answer) => resp = Failure
                /\ evaluation_history' = e.history
                /\ IF IsError(e.result)
                   THEN /\ Len(current_session.errors) < MaxErrors
                        /\ current_session' =
                             [current_session EXCEPT !.errors = Append(@, "evaluation_error")]
                        /\ ret' = Return("submit_answer", [error |-> e.result.error],
                                         e.requests)
                   ELSE /\ current_session' =
                             [current_session EXCEPT
                                 !.evaluations = Append(@, evaluation_result),
                                 !.evaluation_summaries = Append(@, evaluation_summary),
                                 \* _update_session_progress
                                 !.current_question_number = Len(current_session.questions)]
                        /\ ret' = Return("submit_answer", evaluation_result, e.requests)
    /\ UNCHANGED <<orchestrator_class, max_questions, use_theme_structure, session_history,
                   sessions_started, question_agent, diagnostic_history, question_input>>

\* the body of complete_exam, shared by complete_exam and force_complete
\* the failed diagnosis kept as the session's diagnostic result
session_after_failed_diagnosis_keeping_it(completed, result) ==
    [completed EXCEPT !.errors = Append(@, "diagnostic_error"),
                      !.diagnostic_result = result]

\* complete_exam, diagnostic_result.get("error"): the error is appended to
\* the session's errors; status and end_time were set before the diagnosis
session_after_failed_diagnosis(completed, result) ==
    [completed EXCEPT !.errors = Append(@, "diagnostic_error")]

complete_exam_body(op) ==
    IF current_session = EmptyDict
    THEN /\ ret' = Return(op, [error |-> "exam_not_started"], 0)
         /\ UNCHANGED <<current_session, session_history, diagnostic_history>>
    ELSE IF current_session.status # "in_progress"
    THEN /\ ret' = Return(op, [error |-> "exam_already_completed"], 0)
         /\ UNCHANGED <<current_session, session_history, diagnostic_history>>
    ELSE IF current_session.evaluations = << >>
    THEN /\ ret' = Return(op, [error |-> "no_answers_to_analyze"], 0)
         /\ UNCHANGED <<current_session, session_history, diagnostic_history>>
    ELSE \E resp1 \in DiagnosticResponses, resp2 \in DiagnosticResponses :
         LET completed == [current_session EXCEPT !.end_time = Time,
                                                  !.status = "completed"]
             d == diagnose_exam_results(diagnostic_history, completed.questions,
                                        completed.evaluations, resp1, resp2)
             diagnostic_result ==
                 [session_info |->
                     [session_id |-> completed.session_id,
                      questions_count |-> Len(completed.questions)]] @@ d.result
         IN  /\ LLMFailed(resp1) => resp2 = Failure
             /\ diagnostic_history' = d.history
             /\ IF IsError(d.result)
                THEN /\ current_session' = session_after_failed_diagnosis(completed, d.result)
                     /\ session_history' = session_history
                     /\ ret' = Return(op, [error |-> d.result.error], d.requests)
                ELSE /\ current_session' =
                          [completed EXCEPT !.diagnostic_result = diagnostic_result]
                     /\ session_history' = Append(session_history, completed.session_id)
                     /\ ret' = Return(op, diagnostic_result, d.requests)

complete_exam ==
    /\ orchestrator_class = "standard"
    /\ UNCHANGED <<process_vars, trace_vars>>
    /\ UNCHANGED <<wf_vars, theme_vars>>
    /\ complete_exam_body("complete_exam")
    /\ UNCHANGED <<orchestrator_class, max_questions, use_theme_structure, sessions_started,
                   question_agent, evaluation_history, question_input>>

force_complete ==
    /\ orchestrator_class = "standard"
    /\ UNCHANGED <<process_vars, trace_vars>>
    /\ UNCHANGED <<wf_vars, theme_vars>>
    /\ IF current_session # EmptyDict /\ current_session.status = "in_progress"
       THEN complete_exam_body("force_complete")
       ELSE /\ ret' = Return("force_complete", [error |-> "exam_not_active"], 0)
            /\ UNCHANGED <<current_session, session_history, diagnostic_history>>
    /\ UNCHANGED <<orchestrator_class, max_questions, use_theme_structure, sessions_started,
                   question_agent, evaluation_history, question_input>>

\* a Python bool as returned to the caller
PyBool(b) == IF b THEN "True" ELSE "False"

\* ExamOrchestratorLangGraph.can_continue: the value of
\* current_session and status == 'in_progress' and len(questions) < max
can_continue_unbounded(session, max_q) ==
    IF session = EmptyDict THEN None
    ELSE PyBool(session.status = "in_progress")

can_continue_value(session, max_q) ==
    IF session = EmptyDict THEN None
    ELSE IF session.status # "in_progress" THEN PyBool(FALSE)
    ELSE PyBool(Len(session.questions) < max_q)

can_continue ==
    /\ orchestrator_class = "standard"
    /\ UNCHANGED <<process_vars, trace_vars>>
    /\ ret' = Return("can_continue",
                     [result |-> can_continue_value(current_session, max_questions)], 0)
    /\ UNCHANGED <<orchestrator_class, max_questions, use_theme_structure, current_session,
                   session_history, sessions_started, question_agent, evaluation_history,
                   diagnostic_history, question_input, wf_vars, theme_vars>>

\* ------------------------------------- OptimizedExamOrchestratorLangGraph
opt_start_exam ==
    /\ orchestrator_class = "optimized"
    /\ UNCHANGED <<process_vars, trace_vars>>
    /\ UNCHANGED <<wf_vars, theme_vars>>
    /\ sessions_started < MaxSessions
    /\ \E llm_ok \in BOOLEAN :
        LET session == ExamSession(sessions_started + 1, max_questions, use_theme_structure)
            theme_structure == generate_theme_structure(max_questions, llm_ok)
        IN  /\ use_theme_structure \/ llm_ok
            /\ current_session' =
                IF ~use_theme_structure THEN session
                ELSE IF ~IsError(theme_structure)
                THEN [session EXCEPT !.theme_structure = theme_structure,
                                     !.messages = Append(@, "theme_structure_created")]
                ELSE [session EXCEPT !.errors = Append(@, "theme_error")]
            /\ ret' = Return("start_exam", [status |-> "started"],
                             IF ~use_theme_structure THEN 0
                             ELSE IF llm_ok THEN 7 ELSE 1)
    /\ sessions_started' = sessions_started + 1
    /\ UNCHANGED <<orchestrator_class, max_questions, use_theme_structure, session_history,
                   question_agent, evaluation_history, diagnostic_history, question_input>>

opt_get_next_question ==
    /\ orchestrator_class = "optimized"
    /\ UNCHANGED <<process_vars, trace_vars>>
    /\ UNCHANGED <<wf_vars, theme_vars>>
    /\ IF current_session = EmptyDict
       THEN /\ ret' = Return("get_next_question", [error |-> "exam_not_started"], 0)
            /\ UNCHANGED <<current_session, question_agent, question_input>>
       ELSE IF current_session.status # "in_progress"
       THEN /\ ret' = Return("get_next_question", [error |-> "exam_not_active"], 0)
            /\ UNCHANGED <<current_session, question_agent, question_input>>
       ELSE IF Len(current_session.questions) + 1 > max_questions
       THEN /\ ret' = Return("get_next_question", [message |-> "max_questions_reached"], 0)
            /\ UNCHANGED <<current_session, question_agent, question_input>>
       ELSE \E resp \in QuestionResponses(question_agent) :
            LET current_question_number == Len(current_session.questions) + 1
                evaluation_summaries ==
                    get_evaluation_summaries_for_question_agent(evaluation_history)
                g == generate_question(question_agent, current_question_number,
                                       evaluation_summaries, resp)
                question_data ==
                    [privacy_protected |-> TRUE,
                     evaluation_summaries_count |-> Len(evaluation_summaries)] @@ g.result
            IN  /\ question_input' = evaluation_summaries
                /\ question_agent' = g.agent
                /\ IF IsError(g.result)
                   THEN /\ Len(current_session.errors) < MaxErrors
                        /\ current_session' =
                             [current_session EXCEPT !.errors = Append(@, "question_error")]
                        /\ ret' = Return("get_next_question", [error |-> g.result.error],
                                         g.requests)
                   ELSE /\ current_session' =
                             [current_session EXCEPT
                                 !.questions = Append(@, question_data),
                                 !.current_question_number = current_question_number]
                        /\ ret' = Return("get_next_question", question_data, g.requests)
    /\ UNCHANGED <<orchestrator_class, max_questions, use_theme_structure, session_history,
                   sessions_started, evaluation_history, diagnostic_history>>

opt_submit_answer ==
    /\ orchestrator_class = "optimized"
    /\ UNCHANGED <<process_vars, trace_vars>>
    /\ UNCHANGED <<wf_vars, theme_vars>>
    /\ IF current_session = EmptyDict
       THEN /\ ret' = Return("submit_answer", [error |-> "exam_not_started"], 0)
            /\ UNCHANGED <<current_session, evaluation_history>>
       ELSE IF current_session.status # "in_progress"
       THEN /\ ret' = Return("submit_answer", [error |-> "exam_not_active"], 0)
            /\ UNCHANGED <<current_session, evaluation_history>>
       ELSE IF current_session.questions = << >>
       THEN /\ ret' = Return("submit_answer", [error |-> "no_active_question"], 0)
            /\ UNCHANGED <<current_session, evaluation_history>>
       ELSE IF Len(current_session.evaluations) >= Len(current_session.questions)
       THEN /\ ret' = Return("submit_answer", [error |-> "already_answered"], 0)
            /\ UNCHANGED <<current_session, evaluation_history>>
       ELSE \E answer \in Answers : \E resp \in EvaluationResponses(answer) :
            LET current_question ==
                    current_session.questions[Len(current_session.questions)]
                e == evaluate_answer(evaluation_history, current_question.question,
                                     answer, resp)
                evaluation_result ==
                    [question_number |-> current_question.question_number,
                     student_answer_length |-> Len(answer),
                     question_metadata |->
                         [topic_level |-> Get(current_question, "topic_level", None),
                          question_type |-> Get(current_question, "question_type", None)]]
                    @@ e.result
            IN  /\ IsBlank(answer) => resp = Failure
                /\ evaluation_history' = e.history
                /\ IF IsError(e.result)
                   THEN /\ Len(current_session.errors) < MaxErrors
                        /\ current_session' =
                             [current_session EXCEPT !.errors = Append(@, "evaluation_error")]
                        /\ ret' = Return("submit_answer", [error |-> e.result.error],
                                         e.requests)
                   ELSE /\ current_session' =
                             [current_session EXCEPT
                                 !.evaluations = Append(@, evaluation_result)]
                        /\ ret' = Return("submit_answer", evaluation_result, e.requests)
    /\ UNCHANGED <<orchestrator_class, max_questions, use_theme_structure, session_history,
                   sessions_started, question_agent, diagnostic_history, question_input>>

\* the body of the optimized complete_exam, run on the session as the caller
\* left it
opt_complete_exam_body(op, session) ==
    IF session = EmptyDict
    THEN /\ ret' = Return(op, [error |-> "exam_not_started"], 0)
         /\ UNCHANGED <<current_session, session_history, diagnostic_history>>
    ELSE \E resp1 \in DiagnosticResponses, resp2 \in DiagnosticResponses :
         LET completed == IF session.status = "in_progress"
                          THEN [session EXCEPT !.status = "completed", !.end_time = Time]
                          ELSE session
             d == diagnose_exam_results(diagnostic_history, completed.questions,
                                        completed.evaluations, resp1, resp2)
             final_report ==
                 [session_id |-> completed.session_id,
                  questions_count |-> Len(completed.questions),
                  evaluations_count |-> Len(completed.evaluations),
                  grade_info |-> d.result.grade_info,
                  recommendations |-> d.result.recommendations,
                  statistics |-> d.result.statistics]
         IN  /\ LLMFailed(resp1) => resp2 = Failure
             /\ diagnostic_history' = d.history
             /\ IF IsError(d.result)
                THEN /\ Len(completed.errors) < MaxErrors
                     /\ current_session' =
                          [completed EXCEPT !.errors = Append(@, "diagnostic_error")]
                     /\ session_history' = session_history
                     /\ ret' = Return(op, [error |-> d.result.error], d.requests)
                ELSE /\ Len(session_history) < MaxHistory
                     /\ current_session' =
                          [completed EXCEPT !.diagnostic_result = d.result]
                     /\ session_history' = Append(session_history, completed.session_id)
                     /\ ret' = Return(op, final_report, d.requests)

opt_complete_exam ==
    /\ orchestrator_class = "optimized"
    /\ UNCHANGED <<process_vars, trace_vars>>
    /\ UNCHANGED <<wf_vars, theme_vars>>
    /\ opt_complete_exam_body("complete_exam", current_session)
    /\ UNCHANGED <<orchestrator_class, max_questions, use_theme_structure, sessions_started,
                   question_agent, evaluation_history, question_input>>

opt_force_complete ==
    /\ orchestrator_class = "optimized"
    /\ UNCHANGED <<process_vars, trace_vars>>
    /\ UNCHANGED <<wf_vars, theme_vars>>
    /\ opt_complete_exam_body("force_complete",
          IF current_session # EmptyDict /\ current_session.status = "in_progress"
          THEN [current_session EXCEPT !.status = "force_completed",
                                       !.end_time = Time,
                                       !.messages = Append(@, "force_completed")]
          ELSE current_session)
    /\ UNCHANGED <<orchestrator_class, max_questions, use_theme_structure, sessions_started,
                   question_agent, evaluation_history, question_input>>

\* OptimizedExamOrchestratorLangGraph.can_continue
opt_can_continue_value(session, max_q) ==
    IF session = EmptyDict THEN PyBool(FALSE)
    ELSE IF session.status # "in_progress" THEN PyBool(FALSE)
    ELSE PyBool(/\ Len(session.questions) < max_q
                /\ Len(session.questions) = Len(session.evaluations))

opt_can_continue ==
    /\ orchestrator_class = "optimized"
    /\ UNCHANGED <<process_vars, trace_vars>>
    /\ ret' = Return("can_continue",
                     [result |-> opt_can_continue_value(current_session, max_questions)], 0)
    /\ UNCHANGED <<orchestrator_class, max_questions, use_theme_structure, current_session,
                   session_history, sessions_started, question_agent, evaluation_history,
                   diagnostic_history, question_input, wf_vars, theme_vars>>

Next ==
    \/ start_exam
    \/ get_next_question
    \/ submit_answer
    \/ complete_exam
    \/ force_complete
    \/ opt_start_exam
    \/ opt_get_next_question
    \/ opt_submit_answer
    \/ opt_complete_exam
    \/ opt_force_complete
    \/ can_continue
    \/ opt_can_continue

Spec == Init /\ [][Next]_vars

\* ========================================================================
\* ExamOrchestratorLangGraph reused for several attempts: start_exam called
\* again on the same object, with reset_orchestrator available between the
\* attempts, and a question limit for which the theme agent's plan is valid.
\* ========================================================================
\* ExamOrchestratorLangGraph.reset_orchestrator with
\* ExamWorkflowLangGraph.reset_workflow and the agents' reset_history
reset_orchestrator ==
    /\ orchestrator_class = "standard"
    /\ UNCHANGED <<process_vars, trace_vars>>
    /\ current_session' = EmptyDict
    /\ session_history' = << >>
    /\ workflow_history' = << >>
    /\ question_agent' = [question_agent EXCEPT !.question_history = << >>,
                                                !.current_theme_position = 0]
    /\ evaluation_history' = << >>
    /\ diagnostic_history' = << >>
    /\ ret' = Return("reset_orchestrator", EmptyDict, 0)
    /\ UNCHANGED <<orchestrator_class, max_questions, use_theme_structure, sessions_started,
                   question_input, exam_state, node, theme_state>>

InitReuse ==
    /\ orchestrator_class = "standard"
    /\ shared_llm = EmptyDict
    /\ orchestrators = << >>
    /\ executed_nodes = << >>
    /\ max_questions \in {1, PlanQuestions}
    /\ use_theme_structure \in BOOLEAN
    /\ current_session = EmptyDict
    /\ session_history = << >>
    /\ sessions_started = 0
    /\ question_agent = NewQuestionAgent
    /\ evaluation_history = << >>
    /\ diagnostic_history = << >>
    /\ question_input = << >>
    /\ ret = Return("init", EmptyDict, 0)
    /\ exam_state = EmptyDict
    /\ node = "idle"
    /\ workflow_history = << >>
    /\ theme_state = EmptyDict

NextReuse ==
    \/ start_exam_attempt(MaxAttempts)
    \/ get_next_question
    \/ submit_answer
    \/ complete_exam
    \/ force_complete
    \/ can_continue
    \/ reset_orchestrator

SpecReuse == InitReuse /\ [][NextReuse]_vars

\* ========================================================================
\* ExamWorkflowLangGraph (exam_workflow.py): one action per node of the graph
\* initialize_exam -> (create_theme_structure) -> start_exam ->
\* generate_question -> wait_for_answer -> evaluate_answer -> update_progress
\* -> (generate_question | complete_exam) -> run_diagnostics ->
\* finalize_results -> END.  ret.requests counts the completion requests of
\* the run.
\* ========================================================================
DemoAnswer == "demo_answer"
StudentNames == {"", "student"}

\* create_initial_exam_state
create_initial_exam_state(session_id, student_name, max_q, use_theme) ==
    [session_id |-> session_id,
     student_name |-> student_name,
     subject |-> "subject",
     status |-> "not_started",
     start_time |-> None,
     end_time |-> None,
     max_questions |-> max_q,
     use_theme_structure |-> use_theme,
     current_question_number |-> 0,
     theme_structure |-> EmptyDict,
     questions |-> << >>,
     evaluations |-> << >>,
     evaluation_summaries |-> << >>,
     diagnostic_result |-> EmptyDict,
     messages |-> << >>,
     errors |-> << >>,
     metadata |-> EmptyDict]

\* validate_exam_state: the list of errors
validate_exam_state(state) ==
    LET e1 == IF state.session_id = 0 THEN <<"missing_session_id">> ELSE << >>
        e2 == IF state.student_name = "" THEN <<"missing_student_name">> ELSE << >>
        e3 == IF state.subject = "" THEN <<"missing_subject">> ELSE << >>
        e4 == IF state.status = "" THEN <<"missing_status">> ELSE << >>
        e5 == IF state.status \notin {"not_started", "in_progress", "completed"}
              THEN <<"invalid_status">> ELSE << >>
        e6 == IF state.current_question_number < 0
              THEN <<"negative_question_number">> ELSE << >>
        e7 == IF state.current_question_number > state.max_questions
              THEN <<"question_number_over_max">> ELSE << >>
        e8 == IF Len(state.evaluations) > Len(state.questions)
              THEN <<"more_evaluations_than_questions">> ELSE << >>
    IN  e1 \o e2 \o e3 \o e4 \o e5 \o e6 \o e7 \o e8

\* update_exam_progress
update_exam_progress(state) ==
    [state EXCEPT
        !.current_question_number = Len(state.questions),
        !.metadata = [questions_asked |-> Len(state.questions),
                      questions_answered |-> Len(state.evaluations)] @@ @]

\* should_continue_exam
should_continue_exam_one_more(state) ==
    /\ state.status = "in_progress"
    /\ Len(state.questions) <= state.max_questions
    /\ state.errors = << >>

should_continue_exam(state) ==
    /\ state.status = "in_progress"
    /\ Len(state.questions) < state.max_questions
    /\ state.errors = << >>

\* calculate_exam_statistics (scores in tenths)
calculate_exam_statistics(state) ==
    LET scores == [i \in 1..Len(state.evaluations) |->
                      Get(state.evaluations[i], "total_score", 0)]
    IN  IF state.evaluations = << >> THEN [message |-> "no_data"]
        ELSE [total_score |-> SumSeq(scores),
              max_possible_score |-> Len(scores) * 100,
              questions_answered |-> Len(scores)]

\* _decide_theme_creation
decide_theme_creation_despite_errors(state) ==
    IF state.use_theme_structure /\ state.theme_structure = EmptyDict
    THEN "create_theme"
    ELSE "start_exam"

decide_theme_creation(state) ==
    IF state.errors # << >> THEN "start_exam"
    ELSE IF state.use_theme_structure /\ state.theme_structure = EmptyDict
    THEN "create_theme"
    ELSE "start_exam"

\* _decide_next_action
decide_next_action(state) ==
    IF state.errors # << >> THEN "complete"
    ELSE IF should_continue_exam(state) THEN "continue"
    ELSE "complete"

Requests(n) == [ret EXCEPT !.requests = @ + n]

\* start_exam_workflow up to app.invoke(initial_state)
start_exam_workflow ==
    /\ orchestrator_class = "workflow"
    /\ executed_nodes' = << >>
    /\ UNCHANGED process_vars
    /\ node \in {"idle", "END"}
    /\ sessions_started < MaxSessions
    /\ \E student_name \in StudentNames :
        exam_state' = create_initial_exam_state(sessions_started + 1, student_name,
                                                max_questions, use_theme_structure)
    /\ node' = "initialize_exam"
    /\ sessions_started' = sessions_started + 1
    /\ ret' = Return("start_exam_workflow", EmptyDict, 0)
    /\ UNCHANGED <<orchestrator_class, max_questions, use_theme_structure, current_session,
                   session_history, question_agent, evaluation_history,
                   diagnostic_history, question_input, workflow_history, theme_vars>>

initialize_exam_node ==
    /\ orchestrator_class = "workflow"
    /\ executed_nodes' = Append(executed_nodes, node)
    /\ UNCHANGED process_vars
    /\ node = "initialize_exam"
    /\ LET validation_errors == validate_exam_state(exam_state)
           state == IF validation_errors # << >>
                    THEN [exam_state EXCEPT !.errors = @ \o validation_errors]
                    ELSE [exam_state EXCEPT
                             !.metadata = [agents_initialized |-> TRUE] @@ @,
                             !.messages = Append(@, "workflow_initialized")]
       IN  /\ exam_state' = state
           /\ node' = IF decide_theme_creation(state) = "create_theme"
                      THEN "create_theme_structure" ELSE "start_exam"
    /\ UNCHANGED <<orch_vars, workflow_history, theme_vars>>

create_theme_structure_node ==
    /\ orchestrator_class = "workflow"
    /\ executed_nodes' = Append(executed_nodes, node)
    /\ UNCHANGED process_vars
    /\ node = "create_theme_structure"
    /\ \E llm_ok \in BOOLEAN :
        LET theme_structure == generate_theme_structure(exam_state.max_questions, llm_ok)
        IN  /\ IF IsError(theme_structure)
               THEN /\ exam_state' = [exam_state EXCEPT !.errors = Append(@, "theme_error")]
                    /\ question_agent' = question_agent
               ELSE /\ exam_state' =
                         [exam_state EXCEPT
                             !.theme_structure = theme_structure,
                             !.messages = Append(@, "theme_structure_created")]
                    /\ question_agent' =
                         [question_agent EXCEPT !.theme_structure = theme_structure]
            /\ ret' = Requests(IF llm_ok THEN 7 ELSE 1)
    /\ node' = "start_exam"
    /\ UNCHANGED <<orchestrator_class, max_questions, use_theme_structure, current_session,
                   session_history, sessions_started, evaluation_history,
                   diagnostic_history, question_input, workflow_history, theme_vars>>

start_exam_node ==
    /\ orchestrator_class = "workflow"
    /\ executed_nodes' = Append(executed_nodes, node)
    /\ UNCHANGED process_vars
    /\ node = "start_exam"
    /\ exam_state' = [exam_state EXCEPT !.status = "in_progress",
                                        !.start_time = Time,
                                        !.messages = Append(@, "exam_started")]
    /\ node' = "generate_question"
    /\ UNCHANGED <<orch_vars, workflow_history, theme_vars>>

generate_question_node ==
    /\ orchestrator_class = "workflow"
    /\ executed_nodes' = Append(executed_nodes, node)
    /\ UNCHANGED process_vars
    /\ node = "generate_question"
    /\ \E resp \in QuestionResponses(question_agent) :
        LET current_question_number == Len(exam_state.questions) + 1
            evaluation_summaries ==
                get_evaluation_summaries_for_question_agent(evaluation_history)
            g == generate_question(question_agent, current_question_number,
                                   evaluation_summaries, resp)
            question_data ==
                [question_number |-> current_question_number,
                 privacy_protected |-> TRUE,
                 evaluation_summaries_count |-> Len(evaluation_summaries)] @@ g.result
        IN  /\ question_input' = evaluation_summaries
            /\ question_agent' = g.agent
            /\ ret' = Requests(g.requests)
            /\ exam_state' =
                 IF IsError(g.result)
                 THEN [exam_state EXCEPT !.errors = Append(@, "question_error")]
                 ELSE [exam_state EXCEPT
                          !.questions = Append(@, question_data),
                          !.current_question_number = current_question_number,
                          !.messages = Append(@, "question_generated")]
    /\ node' = "wait_for_answer"
    /\ UNCHANGED <<orchestrator_class, max_questions, use_theme_structure, current_session,
                   session_history, sessions_started, evaluation_history,
                   diagnostic_history, workflow_history, theme_vars>>

wait_for_answer_node ==
    /\ orchestrator_class = "workflow"
    /\ executed_nodes' = Append(executed_nodes, node)
    /\ UNCHANGED process_vars
    /\ node = "wait_for_answer"
    /\ exam_state' =
         [exam_state EXCEPT
             !.messages = Append(@, "waiting_for_answer"),
             !.metadata = [waiting_for_answer |-> TRUE,
                           current_question_id |-> Len(exam_state.questions)] @@ @]
    /\ node' = "evaluate_answer"
    /\ UNCHANGED <<orch_vars, workflow_history, theme_vars>>

evaluate_answer_node ==
    /\ orchestrator_class = "workflow"
    /\ executed_nodes' = Append(executed_nodes, node)
    /\ UNCHANGED process_vars
    /\ node = "evaluate_answer"
    /\ IF exam_state.questions = << >>
       THEN /\ exam_state' = [exam_state EXCEPT !.errors = Append(@, "no_question_to_evaluate")]
            /\ UNCHANGED <<evaluation_history, ret>>
       ELSE LET current_question == exam_state.questions[Len(exam_state.questions)]
                student_answer == Get(exam_state.metadata, "current_answer", DemoAnswer)
            IN  \E resp \in EvaluationResponses(student_answer) :
                LET e == evaluate_answer(evaluation_history, current_question.question,
                                         student_answer, resp)
                    evaluation_result ==
                        [answer |-> student_answer,
                         question_number |-> current_question.question_number,
                         question_metadata |->
                             [bloom_level |-> Get(current_question, "bloom_level", None),
                              question_type |->
                                  Get(current_question, "question_type", "unknown"),
                              topic_level |-> Get(current_question, "topic_level", None)]]
                        @@ e.result
                    evaluation_summary ==
                        create_evaluation_summary(evaluation_result, current_question)
                IN  /\ evaluation_history' = e.history
                    /\ ret' = Requests(e.requests)
                    /\ exam_state' =
                         IF IsError(e.result)
                         THEN [exam_state EXCEPT !.errors = Append(@, "evaluation_error")]
                         ELSE [exam_state EXCEPT
                                  !.evaluations = Append(@, evaluation_result),
                                  !.evaluation_summaries = Append(@, evaluation_summary),
                                  !.messages = Append(@, "answer_evaluated"),
                                  !.metadata = [waiting_for_answer |-> FALSE] @@ @]
    /\ node' = "update_progress"
    /\ UNCHANGED <<orchestrator_class, max_questions, use_theme_structure, current_session,
                   session_history, sessions_started, question_agent,
                   diagnostic_history, question_input, workflow_history, theme_vars>>

update_progress_node ==
    /\ orchestrator_class = "workflow"
    /\ executed_nodes' = Append(executed_nodes, node)
    /\ UNCHANGED process_vars
    /\ node = "update_progress"
    /\ LET updated == update_exam_progress(exam_state)
           state == [updated EXCEPT
                        !.metadata = [current_statistics |->
                                         calculate_exam_statistics(updated)] @@ @,
                        !.messages = Append(@, "progress")]
       IN  /\ exam_state' = state
           /\ node' = IF decide_next_action(state) = "continue"
                      THEN "generate_question" ELSE "complete_exam"
    /\ UNCHANGED <<orch_vars, workflow_history, theme_vars>>

complete_exam_node ==
    /\ orchestrator_class = "workflow"
    /\ executed_nodes' = Append(executed_nodes, node)
    /\ UNCHANGED process_vars
    /\ node = "complete_exam"
    /\ exam_state' = [exam_state EXCEPT !.status = "completed",
                                        !.end_time = Time,
                                        !.messages = Append(@, "exam_completed")]
    /\ node' = "run_diagnostics"
    /\ UNCHANGED <<orch_vars, workflow_history, theme_vars>>

run_diagnostics_node ==
    /\ orchestrator_class = "workflow"
    /\ executed_nodes' = Append(executed_nodes, node)
    /\ UNCHANGED process_vars
    /\ node = "run_diagnostics"
    /\ IF exam_state.evaluations = << >>
       THEN /\ exam_state' = [exam_state EXCEPT !.errors = Append(@, "no_evaluations")]
            /\ UNCHANGED <<diagnostic_history, ret>>
       ELSE \E resp1 \in DiagnosticResponses, resp2 \in DiagnosticResponses :
            LET d == diagnose_exam_results(diagnostic_history, exam_state.questions,
                                           exam_state.evaluations, resp1, resp2)
            IN  /\ LLMFailed(resp1) => resp2 = Failure
                /\ diagnostic_history' = d.history
                /\ ret' = Requests(d.requests)
                /\ exam_state' =
                     IF IsError(d.result)
                     THEN [exam_state EXCEPT !.errors = Append(@, "diagnostic_error")]
                     ELSE [exam_state EXCEPT
                              !.diagnostic_result = d.result,
                              !.messages = Append(@, "diagnostics_done")]
    /\ node' = "finalize_results"
    /\ UNCHANGED <<orchestrator_class, max_questions, use_theme_structure, current_session,
                   session_history, sessions_started, question_agent,
                   evaluation_history, question_input, workflow_history, theme_vars>>

\* self.workflow_history.append(workflow_entry) of _finalize_results_node
append_workflow_entry_skipped(history, state) == history

append_workflow_entry(history, state) ==
    Append(history,
           [session_id |-> state.session_id,
            status |-> state.status,
            questions_count |-> Len(state.questions),
            evaluations_count |-> Len(state.evaluations),
            errors_count |-> Len(state.errors)])

\* _finalize_results_node, then the dict start_exam_workflow returns
finalize_results_node ==
    /\ orchestrator_class = "workflow"
    /\ executed_nodes' = Append(executed_nodes, node)
    /\ UNCHANGED process_vars
    /\ node = "finalize_results"
    /\ LET final_stats == calculate_exam_statistics(exam_state)
           session_info == [session_id |-> exam_state.session_id,
                            questions_count |-> Len(exam_state.questions)]
           final_state ==
               [exam_state EXCEPT
                   !.metadata = [final_statistics |-> final_stats] @@ @,
                   !.diagnostic_result =
                       IF @ # EmptyDict THEN [session_info |-> session_info] @@ @ ELSE @,
                   !.messages = Append(@, "results_finalized")]
       IN  /\ exam_state' = final_state
           /\ workflow_history' = append_workflow_entry(workflow_history, exam_state)
           /\ ret' = [ret EXCEPT !.value =
                        [session_id |-> final_state.session_id,
                         status |-> final_state.status,
                         questions_count |-> Len(final_state.questions),
                         evaluations_count |-> Len(final_state.evaluations),
                         diagnostic_result |-> final_state.diagnostic_result,
                         statistics |-> final_stats,
                         errors |-> final_state.errors]]
    /\ node' = "END"
    /\ UNCHANGED <<orchestrator_class, max_questions, use_theme_structure, current_session,
                   session_history, sessions_started, question_agent, evaluation_history,
                   diagnostic_history, question_input, theme_vars>>

\* the max_questions a workflow is built with: the small ones and the
\* smallest for which the theme agent's plan is valid
WorkflowMaxQuestions == (1..MaxQ) \cup {PlanQuestions}

InitWf ==
    /\ orchestrator_class = "workflow"
    /\ shared_llm = EmptyDict
    /\ orchestrators = << >>
    /\ executed_nodes = << >>
    /\ max_questions \in WorkflowMaxQuestions
    /\ use_theme_structure \in BOOLEAN
    /\ current_session = EmptyDict
    /\ session_history = << >>
    /\ sessions_started = 0
    /\ question_agent = NewQuestionAgent
    /\ evaluation_history = << >>
    /\ diagnostic_history = << >>
    /\ question_input = << >>
    /\ ret = Return("init", EmptyDict, 0)
    /\ exam_state = EmptyDict
    /\ node = "idle"
    /\ workflow_history = << >>
    /\ theme_state = EmptyDict

NextWf ==
    \/ start_exam_workflow
    \/ initialize_exam_node
    \/ create_theme_structure_node
    \/ start_exam_node
    \/ generate_question_node
    \/ wait_for_answer_node
    \/ evaluate_answer_node
    \/ update_progress_node
    \/ complete_exam_node
    \/ run_diagnostics_node
    \/ finalize_results_node

SpecWf == InitWf /\ [][NextWf]_vars

\* app.invoke runs the nodes of one run one after another until END: a node
\* that is next to run does run
WfNodeStep ==
    \/ initialize_exam_node
    \/ create_theme_structure_node
    \/ start_exam_node
    \/ generate_question_node
    \/ wait_for_answer_node
    \/ evaluate_answer_node
    \/ update_progress_node
    \/ complete_exam_node
    \/ run_diagnostics_node
    \/ finalize_results_node

SpecWfLive == InitWf /\ [][NextWf]_vars /\ WF_vars(WfNodeStep)

\* ========================================================================
\* ThemeAgentLangGraph.generate_theme_structure: one action per node of the
\* graph validate_theme_input -> format_bloom_levels -> analyze_theme ->
\* distribute_questions -> create_question_guidelines ->
\* build_theme_curriculum -> validate_theme_structure ->
\* save_theme_structure -> END
\* ========================================================================

\* ThemeState(...) as generate_theme_structure constructs it
ThemeState(total_questions) ==
    [subject |-> "subject",
     topic_context |-> "topic_context",
     total_questions |-> total_questions,
     theme_structure |-> EmptyDict,
     validation_result |-> EmptyDict,
     error |-> None,
     raw_theme_structure |-> None,
     questions_distribution |-> EmptyDict,
     question_guidelines |-> EmptyDict]

\* _validate_structure: the list issues
validate_structure(curriculum) ==
    LET missing_levels == DOMAIN bloom_weight \ DOMAIN curriculum.question_guidelines
        i1 == IF missing_levels # {} THEN <<"missing_bloom_levels">> ELSE << >>
        i2 == IF DistTotal(curriculum.questions_distribution) # curriculum.total_questions
              THEN <<"distribution_total_mismatch">> ELSE << >>
    IN  i1 \o i2

generate_theme_structure_invoke ==
    /\ orchestrator_class = "theme_agent"
    /\ executed_nodes' = << >>
    /\ UNCHANGED process_vars
    /\ node \in {"idle", "END"}
    /\ sessions_started < MaxSessions
    /\ \E total_questions \in 0..MaxTotal : theme_state' = ThemeState(total_questions)
    /\ node' = "validate_theme_input"
    /\ sessions_started' = sessions_started + 1
    /\ ret' = Return("generate_theme_structure", EmptyDict, 0)
    /\ UNCHANGED <<orchestrator_class, max_questions, use_theme_structure, current_session,
                   session_history, question_agent, evaluation_history,
                   diagnostic_history, question_input, exam_state, workflow_history>>

validate_theme_input_node ==
    /\ orchestrator_class = "theme_agent"
    /\ executed_nodes' = Append(executed_nodes, node)
    /\ UNCHANGED process_vars
    /\ node = "validate_theme_input"
    /\ theme_state' =
         IF theme_state.subject = "" THEN [theme_state EXCEPT !.error = "no_subject"]
         ELSE IF theme_state.topic_context = ""
         THEN [theme_state EXCEPT !.error = "no_topic_context"]
         ELSE IF theme_state.total_questions <= 0
         THEN [theme_state EXCEPT !.error = "bad_question_count"]
         ELSE theme_state
    /\ node' = "format_bloom_levels"
    /\ UNCHANGED <<orch_vars, exam_state, workflow_history>>

format_bloom_levels_node ==
    /\ orchestrator_class = "theme_agent"
    /\ executed_nodes' = Append(executed_nodes, node)
    /\ UNCHANGED process_vars
    /\ node = "format_bloom_levels"
    /\ theme_state' =
         IF theme_state.error # None THEN theme_state
         ELSE [bloom_levels_info |-> "bloom_levels_info"] @@ theme_state
    /\ node' = "analyze_theme"
    /\ UNCHANGED <<orch_vars, exam_state, workflow_history>>

analyze_theme_node ==
    /\ orchestrator_class = "theme_agent"
    /\ executed_nodes' = Append(executed_nodes, node)
    /\ UNCHANGED process_vars
    /\ node = "analyze_theme"
    /\ IF theme_state.error # None
       THEN UNCHANGED <<theme_state, ret>>
       ELSE \E llm_ok \in BOOLEAN :
            /\ theme_state' =
                 IF llm_ok
                 THEN [theme_state EXCEPT !.raw_theme_structure = "raw_theme_structure"]
                 ELSE [theme_state EXCEPT !.error = "theme_llm_failure"]
            /\ ret' = Requests(1)
    /\ node' = "distribute_questions"
    /\ UNCHANGED <<orchestrator_class, max_questions, use_theme_structure, current_session,
                   session_history, sessions_started, question_agent, evaluation_history,
                   diagnostic_history, question_input, exam_state, workflow_history>>

distribute_questions_node ==
    /\ orchestrator_class = "theme_agent"
    /\ executed_nodes' = Append(executed_nodes, node)
    /\ UNCHANGED process_vars
    /\ node = "distribute_questions"
    /\ theme_state' =
         IF theme_state.error # None THEN theme_state
         ELSE [theme_state EXCEPT
                  !.questions_distribution =
                      distribute_questions(theme_state.total_questions)]
    /\ node' = "create_question_guidelines"
    /\ UNCHANGED <<orch_vars, exam_state, workflow_history>>

\* one completion request per level with a count above zero; llm_ok: none fails
create_question_guidelines_node ==
    /\ orchestrator_class = "theme_agent"
    /\ executed_nodes' = Append(executed_nodes, node)
    /\ UNCHANGED process_vars
    /\ node = "create_question_guidelines"
    /\ IF theme_state.error # None
       THEN UNCHANGED <<theme_state, ret>>
       ELSE \E llm_ok \in BOOLEAN :
            LET distribution == theme_state.questions_distribution
                levels == {level \in DOMAIN distribution : distribution[level] > 0}
            IN  /\ theme_state' =
                     IF llm_ok
                     THEN [theme_state EXCEPT
                              !.question_guidelines =
                                  question_guidelines_for(distribution)]
                     ELSE [theme_state EXCEPT !.error = "theme_llm_failure"]
                /\ ret' = Requests(IF llm_ok THEN Cardinality(levels) ELSE 1)
    /\ node' = "build_theme_curriculum"
    /\ UNCHANGED <<orchestrator_class, max_questions, use_theme_structure, current_session,
                   session_history, sessions_started, question_agent, evaluation_history,
                   diagnostic_history, question_input, exam_state, workflow_history>>

build_theme_curriculum_node ==
    /\ orchestrator_class = "theme_agent"
    /\ executed_nodes' = Append(executed_nodes, node)
    /\ UNCHANGED process_vars
    /\ node = "build_theme_curriculum"
    /\ theme_state' =
         IF theme_state.error # None THEN theme_state
         ELSE [theme_state EXCEPT
                  !.theme_structure =
                      [total_questions |-> theme_state.total_questions,
                       theme_structure |-> theme_state.raw_theme_structure,
                       questions_distribution |-> theme_state.questions_distribution,
                       question_guidelines |-> theme_state.question_guidelines,
                       bloom_sequence |-> bloom_sequence]]
    /\ node' = "validate_theme_structure"
    /\ UNCHANGED <<orch_vars, exam_state, workflow_history>>

validate_theme_structure_node ==
    /\ orchestrator_class = "theme_agent"
    /\ executed_nodes' = Append(executed_nodes, node)
    /\ UNCHANGED process_vars
    /\ node = "validate_theme_structure"
    /\ theme_state' =
         IF theme_state.error # None THEN theme_state
         ELSE LET issues == validate_structure(theme_state.theme_structure)
                  validation_result == [is_valid |-> issues = << >>, issues |-> issues]
              IN  [theme_state EXCEPT
                      !.validation_result = validation_result,
                      !.error = IF ~validation_result.is_valid
                                THEN "structure_invalid" ELSE @]
    /\ node' = "save_theme_structure"
    /\ UNCHANGED <<orch_vars, exam_state, workflow_history>>

\* _save_theme_structure_node, then the dict generate_theme_structure returns
save_theme_structure_node ==
    /\ orchestrator_class = "theme_agent"
    /\ executed_nodes' = Append(executed_nodes, node)
    /\ UNCHANGED process_vars
    /\ node = "save_theme_structure"
    /\ ret' = [ret EXCEPT !.value = IF theme_state.error # None
                                    THEN [error |-> theme_state.error]
                                    ELSE theme_state.theme_structure]
    /\ node' = "END"
    /\ UNCHANGED <<orchestrator_class, max_questions, use_theme_structure, current_session,
                   session_history, sessions_started, question_agent, evaluation_history,
                   diagnostic_history, question_input, exam_state, workflow_history,
                   theme_state>>

InitTheme ==
    /\ orchestrator_class = "theme_agent"
    /\ shared_llm = EmptyDict
    /\ orchestrators = << >>
    /\ executed_nodes = << >>
    /\ max_questions = 1
    /\ use_theme_structure = TRUE
    /\ current_session = EmptyDict
    /\ session_history = << >>
    /\ sessions_started = 0
    /\ question_agent = NewQuestionAgent
    /\ evaluation_history = << >>
    /\ diagnostic_history = << >>
    /\ question_input = << >>
    /\ ret = Return("init", EmptyDict, 0)
    /\ exam_state = EmptyDict
    /\ node = "idle"
    /\ workflow_history = << >>
    /\ theme_state = EmptyDict

NextTheme ==
    \/ generate_theme_structure_invoke
    \/ validate_theme_input_node
    \/ format_bloom_levels_node
    \/ analyze_theme_node
    \/ distribute_questions_node
    \/ create_question_guidelines_node
    \/ build_theme_curriculum_node
    \/ validate_theme_structure_node
    \/ save_theme_structure_node

SpecTheme == InitTheme /\ [][NextTheme]_vars

\* ========================================================================
\* EvaluationAgentLangGraph on its own: evaluate_answer, reset_history and
\* the reconciler _parse_detailed_evaluation called on a reply
\* ========================================================================

\* a call with its arguments, the completion it received (None when it takes
\* no completion), the value returned and the completion requests issued
Call(op, args, completion, value, requests) ==
    [op |-> op, args |-> args, completion |-> completion, value |-> value,
     requests |-> requests]

\* the criterion scores a reply can carry
CriterionScores == 0..MaxCriterion

\* the reported aggregates explored: absent, matched but not a float, and
\* every tenth of a point up to MaxReported
ReportedAggregates ==
    {NoScore, Unparsable} \cup (0..MaxReported)

\* a reply of the completion service with the three criteria matched
EvaluationReply(correctness, completeness, understanding, total) ==
    [ok |-> TRUE, empty |-> FALSE, service_error |-> FALSE,
     correctness |-> correctness, completeness |-> completeness,
     understanding |-> understanding, total |-> total,
     strengths |-> "clear", weaknesses |-> "gaps"]

\* the replies the reconciler is applied to
ReconcilerInputs(scores, aggregates) ==
    {ServiceErrorText}
    \cup {EvaluationReply(c1, c2, c3, t) :
              c1 \in scores, c2 \in scores, c3 \in scores, t \in aggregates}

\* the questions, answers and completions evaluate_answer is called with
EvaluatedQuestions == {QText(1, FALSE, 20), QText(1, FALSE, 0)}
StudentAnswers == {None, "", " ", "answer"}
AgentCompletions(student_answer) ==
    EvaluationResponses(student_answer)
    \cup {EvaluationReply(8, 6, 7, 70), EvaluationReply(0, 0, 0, 50)}

\* EvaluationAgentLangGraph.evaluate_answer called directly
agent_evaluate_answer ==
    /\ orchestrator_class = "evaluation_agent"
    /\ UNCHANGED <<process_vars, trace_vars>>
    /\ Len(evaluation_history) < MaxEvalHistory
    /\ \E question \in EvaluatedQuestions : \E student_answer \in StudentAnswers :
       \E resp \in AgentCompletions(student_answer) :
          LET out == evaluate_answer(evaluation_history, question, student_answer, resp)
          IN  /\ evaluation_history' = out.history
              /\ ret' = Call("evaluate_answer",
                             [question |-> question, student_answer |-> student_answer],
                             IF out.requests = 0 THEN None ELSE resp,
                             out.result, out.requests)
    /\ UNCHANGED <<orchestrator_class, max_questions, use_theme_structure, current_session,
                   session_history, sessions_started, question_agent, diagnostic_history,
                   question_input, wf_vars, theme_vars>>

\* EvaluationAgentLangGraph.reset_history
agent_reset_history ==
    /\ orchestrator_class = "evaluation_agent"
    /\ UNCHANGED <<process_vars, trace_vars>>
    /\ evaluation_history' = << >>
    /\ ret' = Call("reset_history", EmptyDict, None, EmptyDict, 0)
    /\ UNCHANGED <<orchestrator_class, max_questions, use_theme_structure, current_session,
                   session_history, sessions_started, question_agent, diagnostic_history,
                   question_input, wf_vars, theme_vars>>

InitEval ==
    /\ orchestrator_class = "evaluation_agent"
    /\ shared_llm = EmptyDict
    /\ orchestrators = << >>
    /\ executed_nodes = << >>
    /\ max_questions = 1
    /\ use_theme_structure = FALSE
    /\ current_session = EmptyDict
    /\ session_history = << >>
    /\ sessions_started = 0
    /\ question_agent = NewQuestionAgent
    /\ evaluation_history = << >>
    /\ diagnostic_history = << >>
    /\ question_input = << >>
    /\ ret = Call("init", EmptyDict, None, EmptyDict, 0)
    /\ exam_state = EmptyDict
    /\ node = "idle"
    /\ workflow_history = << >>
    /\ theme_state = EmptyDict

NextEval ==
    \/ agent_evaluate_answer
    \/ agent_reset_history

SpecEval == InitEval /\ [][NextEval]_vars

\* ------------------------------------------------------------------------
\* The reconciler _parse_detailed_evaluation as a function of the reply: the
\* reply is drawn when the run starts and the one step applies the reconciler
\* ------------------------------------------------------------------------
parse_detailed_evaluation_call ==
    /\ orchestrator_class = "reconciler"
    /\ UNCHANGED <<process_vars, trace_vars>>
    /\ ret.op = "pending"
    /\ ret' = Call("_parse_detailed_evaluation", ret.args, None,
                   parse_detailed_evaluation(ret.args.response), 0)
    /\ UNCHANGED <<orchestrator_class, max_questions, use_theme_structure, current_session,
                   session_history, sessions_started, question_agent, evaluation_history,
                   diagnostic_history, question_input, wf_vars, theme_vars>>

InitReconcile ==
    /\ orchestrator_class = "reconciler"
    /\ shared_llm = EmptyDict
    /\ orchestrators = << >>
    /\ executed_nodes = << >>
    /\ max_questions = 1
    /\ use_theme_structure = FALSE
    /\ current_session = EmptyDict
    /\ session_history = << >>
    /\ sessions_started = 0
    /\ question_agent = NewQuestionAgent
    /\ evaluation_history = << >>
    /\ diagnostic_history = << >>
    /\ question_input = << >>
    /\ \E resp \in ReconcilerInputs(CriterionScores, ReportedAggregates) :
          ret = Call("pending", [response |-> resp], None, EmptyDict, 0)
    /\ exam_state = EmptyDict
    /\ node = "idle"
    /\ workflow_history = << >>
    /\ theme_state = EmptyDict

NextReconcile == parse_detailed_evaluation_call

SpecReconcile == InitReconcile /\ [][NextReconcile]_vars

\* ========================================================================
\* QuestionAgentLangGraph on its own: built with or without a plan of the
\* theme agent, then generate_question and reset_history called directly
\* ========================================================================

\* a call of generate_question with the template its request was built on
\* and the variables the template was filled with
QuestionCall(args, completion, out) ==
    [op |-> "generate_question", args |-> args, completion |-> completion,
     value |-> out.result, requests |-> out.requests,
     template |-> out.template, prompt |-> out.prompt]

\* the plans a question agent is built with: none, or the theme agent's plan
\* for PlanQuestions questions
QuestionAgentPlans == {EmptyDict, generate_theme_structure(PlanQuestions, TRUE)}

\* the arguments of generate_question: the 1-based number and the summaries
QuestionNumbers == {1, 2}
SummaryLists == {<< >>, <<create_evaluation_summary(empty_result, EmptyDict)>>}

\* the completions explored: those of the orchestrators, an empty text and a
\* question whose reply carries the УРОВЕНЬ_БЛУМА field
QuestionAgentCompletions(agent) ==
    QuestionResponses(agent)
    \cup {[ok |-> TRUE, empty |-> TRUE]}
    \cup {[ok |-> TRUE, empty |-> FALSE,
           question |-> QText(Len(agent.question_history) + 1, FALSE, 20),
           key_points |-> "key_points", bloom_level_match |-> TRUE]}

\* QuestionAgentLangGraph.generate_question called directly
agent_generate_question ==
    /\ orchestrator_class = "question_agent"
    /\ UNCHANGED <<process_vars, trace_vars>>
    /\ Len(question_agent.question_history) < MaxGenerated
    /\ \E question_number \in QuestionNumbers : \E evaluation_summaries \in SummaryLists :
       \E resp \in QuestionAgentCompletions(question_agent) :
          LET out == generate_question(question_agent, question_number,
                                       evaluation_summaries, resp)
          IN  /\ question_agent' = out.agent
              /\ ret' = QuestionCall([question_number |-> question_number,
                                      evaluation_summaries |-> evaluation_summaries],
                                     resp, out)
    /\ UNCHANGED <<orchestrator_class, max_questions, use_theme_structure, current_session,
                   session_history, sessions_started, evaluation_history,
                   diagnostic_history, question_input, wf_vars, theme_vars>>

\* QuestionAgentLangGraph.reset_history
question_agent_reset_history ==
    /\ orchestrator_class = "question_agent"
    /\ UNCHANGED <<process_vars, trace_vars>>
    /\ question_agent' = [question_agent EXCEPT !.question_history = << >>,
                                                !.current_theme_position = 0]
    /\ ret' = Call("reset_history", EmptyDict, None, EmptyDict, 0)
    /\ UNCHANGED <<orchestrator_class, max_questions, use_theme_structure, current_session,
                   session_history, sessions_started, evaluation_history,
                   diagnostic_history, question_input, wf_vars, theme_vars>>

InitQuestion ==
    /\ orchestrator_class = "question_agent"
    /\ shared_llm = EmptyDict
    /\ orchestrators = << >>
    /\ executed_nodes = << >>
    /\ max_questions = 1
    /\ use_theme_structure = FALSE
    /\ current_session = EmptyDict
    /\ session_history = << >>
    /\ sessions_started = 0
    /\ \E theme_structure \in QuestionAgentPlans :
          question_agent = [NewQuestionAgent EXCEPT !.theme_structure = theme_structure]
    /\ evaluation_history = << >>
    /\ diagnostic_history = << >>
    /\ question_input = << >>
    /\ ret = Call("init", EmptyDict, None, EmptyDict, 0)
    /\ exam_state = EmptyDict
    /\ node = "idle"
    /\ workflow_history = << >>
    /\ theme_state = EmptyDict

NextQuestion ==
    \/ agent_generate_question
    \/ question_agent_reset_history

SpecQuestion == InitQuestion /\ [][NextQuestion]_vars

\* ========================================================================
\* DiagnosticAgentLangGraph on its own: diagnose_exam_results called on a
\* list of questions and a list of evaluations, drawn when the run starts
\* ========================================================================

\* n questions as the orchestrators store them
DiagnosedQuestions(n) ==
    [i \in 1..n |-> [question |-> QText(i, FALSE, 20), key_points |-> "key_points",
                     topic_level |-> "basic", question_number |-> i]]

\* the evaluations carrying a list of total scores, in tenths
DiagnosedEvaluations(scores) ==
    [i \in 1..Len(scores) |-> [type |-> "detailed", total_score |-> scores[i],
                               question_number |-> i]]

\* the scores around which three-score lists are explored: the ends, the
\* band limits of one score and scores whose sums meet the limits of three
BoundaryScores == {0, 12, 17, 40, 60, 62, 66, 71, 75, 90, 92, 97, MaxScore}

\* the lists of total scores explored: none, every list of one or two
\* scores, and the lists of three scores from BoundaryScores
ScoreLists(all, boundary) ==
    {<< >>}
    \cup {<<a>> : a \in all}
    \cup {<<a, b>> : a \in all, b \in all}
    \cup {<<a, b, c>> : a \in boundary, b \in boundary, c \in boundary}

DiagnosedQuestionCounts == 0..3

\* DiagnosticAgentLangGraph.diagnose_exam_results called directly
agent_diagnose_exam_results ==
    /\ orchestrator_class = "diagnostic_agent"
    /\ UNCHANGED <<process_vars, trace_vars>>
    /\ ret.op = "pending"
    /\ \E resp1 \in DiagnosticResponses, resp2 \in DiagnosticResponses :
          LET d == diagnose_exam_results(diagnostic_history, ret.args.questions,
                                         ret.args.evaluations, resp1, resp2)
          IN  /\ LLMFailed(resp1) => resp2 = Failure
              /\ diagnostic_history' = d.history
              /\ ret' = Call("diagnose_exam_results", ret.args,
                             IF d.requests = 0 THEN EmptyDict
                             ELSE [first |-> resp1, second |-> resp2],
                             d.result, d.requests)
    /\ UNCHANGED <<orchestrator_class, max_questions, use_theme_structure, current_session,
                   session_history, sessions_started, question_agent, evaluation_history,
                   question_input, wf_vars, theme_vars>>

InitDiagnose ==
    /\ orchestrator_class = "diagnostic_agent"
    /\ shared_llm = EmptyDict
    /\ orchestrators = << >>
    /\ executed_nodes = << >>
    /\ max_questions = 1
    /\ use_theme_structure = FALSE
    /\ current_session = EmptyDict
    /\ session_history = << >>
    /\ sessions_started = 0
    /\ question_agent = NewQuestionAgent
    /\ evaluation_history = << >>
    /\ diagnostic_history = << >>
    /\ question_input = << >>
    /\ \E n \in DiagnosedQuestionCounts : \E scores \in ScoreLists(0..MaxScore, BoundaryScores) :
          ret = Call("pending",
                     [questions |-> DiagnosedQuestions(n),
                      evaluations |-> DiagnosedEvaluations(scores)],
                     None, EmptyDict, 0)
    /\ exam_state = EmptyDict
    /\ node = "idle"
    /\ workflow_history = << >>
    /\ theme_state = EmptyDict

NextDiagnose == agent_diagnose_exam_results

SpecDiagnose == InitDiagnose /\ [][NextDiagnose]_vars

\* ========================================================================
\* ThemeAgentLangGraph.get_next_bloom_level_requirements on its own: called
\* at any position on a plan drawn when the run starts
\* ========================================================================

\* the curriculum build_theme_curriculum makes of a distribution
PlanOf(distribution) ==
    [total_questions |-> DistTotal(distribution),
     questions_distribution |-> distribution,
     question_guidelines |-> question_guidelines_for(distribution),
     bloom_sequence |-> bloom_sequence]

\* the distributions explored: those of _distribute_questions_node and every
\* assignment of 0..max_count questions to the six levels
PlanDistributions(max_total, max_count) ==
    {distribute_questions(n) : n \in 1..max_total}
    \cup [DOMAIN bloom_weight -> 0..max_count]

PlanPositions(curriculum) == 0..(DistTotal(curriculum.questions_distribution) + PastEnd)

agent_get_next_bloom_level_requirements ==
    /\ orchestrator_class = "theme_plan"
    /\ UNCHANGED <<process_vars, trace_vars>>
    /\ \E current_position \in PlanPositions(ret.args.curriculum) :
          ret' = Call("get_next_bloom_level_requirements",
                      [curriculum |-> ret.args.curriculum,
                       current_position |-> current_position],
                      EmptyDict,
                      get_next_bloom_level_requirements(ret.args.curriculum,
                                                        current_position),
                      0)
    /\ UNCHANGED <<orchestrator_class, max_questions, use_theme_structure, current_session,
                   session_history, sessions_started, question_agent, evaluation_history,
                   diagnostic_history, question_input, wf_vars, theme_vars>>

InitPlan ==
    /\ orchestrator_class = "theme_plan"
    /\ shared_llm = EmptyDict
    /\ orchestrators = << >>
    /\ executed_nodes = << >>
    /\ max_questions = 1
    /\ use_theme_structure = TRUE
    /\ current_session = EmptyDict
    /\ session_history = << >>
    /\ sessions_started = 0
    /\ question_agent = NewQuestionAgent
    /\ evaluation_history = << >>
    /\ diagnostic_history = << >>
    /\ question_input = << >>
    /\ \E distribution \in PlanDistributions(MaxTotal, MaxLevelCount) :
          ret = Call("pending",
                     [curriculum |-> PlanOf(distribution), current_position |-> 0],
                     EmptyDict, None, 0)
    /\ exam_state = EmptyDict
    /\ node = "idle"
    /\ workflow_history = << >>
    /\ theme_state = EmptyDict

NextPlan == agent_get_next_bloom_level_requirements

SpecPlan == InitPlan /\ [][NextPlan]_vars

\* ========================================================================
\* Several orchestrators in one process: ExamOrchestratorLangGraph builds
\* its agents, each with a YandexGPT of its own; the workflow of
\* OptimizedExamOrchestratorLangGraph takes SharedLLMManager's instance and
\* hands it to every agent it creates
\* ========================================================================

\* create_yandex_llm(): the counters of a YandexGPT (total_tokens and
\* last_request_time are written together with request_count)
NewLLM == [request_count |-> 0]

\* SharedLLMManager.get_shared_llm
get_shared_llm(llm) == IF llm = EmptyDict THEN NewLLM ELSE llm

\* the orchestrator __init__ builds
NewOrchestrator(class) ==
    [class |-> class,
     max_questions |-> HostedQuestions,
     agents_initialized |-> class = "standard",
     \* the completion clients its agents hold: their own, or the shared one
     llm |-> IF class = "standard"
             THEN [question_agent |-> NewLLM, evaluation_agent |-> NewLLM]
             ELSE EmptyDict,
     current_session |-> EmptyDict,
     question_agent |-> NewQuestionAgent,
     evaluation_history |-> << >>]

Hosted(k) == orchestrators[k] # EmptyDict

\* YandexGPT._call: request_count grows once the credentials are found; a
\* request that fails may or may not have come that far
CountedRequests(resp, requests) ==
    IF requests = 0 THEN {0}
    ELSE IF LLMFailed(resp) \/ Get(resp, "service_error", FALSE) THEN {0, requests}
    ELSE {requests}

\* the completion clients after count requests of one agent of orchestrator k
CountOwn(o, agent, count) ==
    IF o.class = "standard"
    THEN [o EXCEPT !.llm[agent].request_count = @ + count]
    ELSE [o EXCEPT !.agents_initialized = TRUE]

CountShared(o, count) ==
    IF o.class = "standard" THEN shared_llm
    ELSE [shared_llm EXCEPT !.request_count = @ + count]

\* get_performance_stats()['shared_llm_stats']
shared_llm_stats(llm) ==
    [request_count |-> IF llm # EmptyDict THEN llm.request_count ELSE 0]

hosted_unchanged ==
    UNCHANGED <<orchestrator_class, max_questions, use_theme_structure, current_session,
                session_history, sessions_started, question_agent, evaluation_history,
                diagnostic_history, question_input, wf_vars, theme_vars, trace_vars>>

\* ExamOrchestratorLangGraph(...) or OptimizedExamOrchestratorLangGraph(...)
create_orchestrator ==
    /\ orchestrator_class = "process"
    /\ \E k \in 1..MaxOrchestrators : \E class \in {"standard", "optimized"} :
          /\ ~Hosted(k)
          /\ orchestrators' = [orchestrators EXCEPT ![k] = NewOrchestrator(class)]
          /\ shared_llm' = IF class = "optimized" THEN get_shared_llm(shared_llm)
                           ELSE shared_llm
          /\ ret' = Call("__init__", [orchestrator |-> k], EmptyDict, EmptyDict, 0)
    /\ hosted_unchanged

hosted_start_exam ==
    /\ orchestrator_class = "process"
    /\ \E k \in 1..MaxOrchestrators :
          /\ Hosted(k)
          /\ orchestrators[k].current_session = EmptyDict
          /\ orchestrators' =
               [orchestrators EXCEPT
                   ![k].current_session = ExamSession(k, orchestrators[k].max_questions, FALSE)]
          /\ ret' = Call("start_exam", [orchestrator |-> k], EmptyDict,
                         [status |-> "started"], 0)
    /\ UNCHANGED shared_llm
    /\ hosted_unchanged

hosted_get_next_question ==
    /\ orchestrator_class = "process"
    /\ \E k \in 1..MaxOrchestrators :
          LET o == orchestrators[k]
              session == o.current_session
          IN  /\ Hosted(k)
              /\ session # EmptyDict
              /\ session.status = "in_progress"
              /\ Len(session.questions) + 1 <= o.max_questions
              /\ \E resp \in QuestionResponses(o.question_agent) :
                 LET current_question_number == Len(session.questions) + 1
                     evaluation_summaries ==
                         get_evaluation_summaries_for_question_agent(o.evaluation_history)
                     g == generate_question(o.question_agent, current_question_number,
                                            evaluation_summaries, resp)
                     question_data ==
                         [privacy_protected |-> TRUE,
                          evaluation_summaries_count |-> Len(evaluation_summaries)]
                         @@ g.result
                 IN  \E count \in CountedRequests(resp, g.requests) :
                     /\ IsError(g.result) => Len(session.errors) < MaxErrors
                     /\ orchestrators' =
                          [orchestrators EXCEPT ![k] =
                              [CountOwn(o, "question_agent", count) EXCEPT
                                  !.question_agent = g.agent,
                                  !.current_session =
                                      IF IsError(g.result)
                                      THEN [session EXCEPT
                                               !.errors = Append(@, "question_error")]
                                      ELSE [session EXCEPT
                                               !.questions = Append(@, question_data),
                                               !.current_question_number =
                                                   current_question_number]]]
                     /\ shared_llm' = CountShared(o, count)
                     /\ ret' = Call("get_next_question", [orchestrator |-> k], resp,
                                    IF IsError(g.result) THEN [error |-> g.result.error]
                                    ELSE question_data,
                                    g.requests)
    /\ hosted_unchanged

hosted_submit_answer ==
    /\ orchestrator_class = "process"
    /\ \E k \in 1..MaxOrchestrators :
          LET o == orchestrators[k]
              session == o.current_session
          IN  /\ Hosted(k)
              /\ session # EmptyDict
              /\ session.status = "in_progress"
              /\ session.questions # << >>
              /\ Len(session.evaluations) < Len(session.questions)
              /\ \E answer \in Answers : \E resp \in EvaluationResponses(answer) :
                 LET current_question == session.questions[Len(session.questions)]
                     e == evaluate_answer(o.evaluation_history, current_question.question,
                                          answer, resp)
                 IN  \E count \in CountedRequests(resp, e.requests) :
                     LET evaluation_result ==
                             [question_number |-> current_question.question_number,
                              student_answer_length |-> Len(answer)]
                             @@ (IF o.class = "optimized"
                                 THEN [performance |->
                                          [shared_llm_stats |->
                                              shared_llm_stats(CountShared(o, count))]]
                                 ELSE EmptyDict)
                             @@ e.result
                     IN  /\ IsBlank(answer) => resp = Failure
                         /\ IsError(e.result) => Len(session.errors) < MaxErrors
                         /\ orchestrators' =
                              [orchestrators EXCEPT ![k] =
                                  [CountOwn(o, "evaluation_agent", count) EXCEPT
                                      !.evaluation_history = e.history,
                                      !.current_session =
                                          IF IsError(e.result)
                                          THEN [session EXCEPT
                                                   !.errors = Append(@, "evaluation_error")]
                                          ELSE [session EXCEPT
                                                   !.evaluations =
                                                       Append(@, evaluation_result)]]]
                         /\ shared_llm' = CountShared(o, count)
                         /\ ret' = Call("submit_answer", [orchestrator |-> k], resp,
                                        IF IsError(e.result) THEN [error |-> e.result.error]
                                        ELSE evaluation_result,
                                        e.requests)
    /\ hosted_unchanged

\* OptimizedExamWorkflowLangGraph.get_performance_stats of orchestrator k
hosted_get_performance_stats ==
    /\ orchestrator_class = "process"
    /\ \E k \in 1..MaxOrchestrators :
          /\ Hosted(k)
          /\ orchestrators[k].class = "optimized"
          /\ ret' = Call("get_performance_stats", [orchestrator |-> k], EmptyDict,
                         [agents_initialized |-> orchestrators[k].agents_initialized,
                          shared_llm_stats |-> shared_llm_stats(shared_llm)],
                         0)
    /\ UNCHANGED process_vars
    /\ hosted_unchanged

InitProcess ==
    /\ orchestrator_class = "process"
    /\ shared_llm = EmptyDict
    /\ orchestrators = [k \in 1..MaxOrchestrators |-> EmptyDict]
    /\ executed_nodes = << >>
    /\ max_questions = HostedQuestions
    /\ use_theme_structure = FALSE
    /\ current_session = EmptyDict
    /\ session_history = << >>
    /\ sessions_started = 0
    /\ question_agent = NewQuestionAgent
    /\ evaluation_history = << >>
    /\ diagnostic_history = << >>
    /\ question_input = << >>
    /\ ret = Call("init", EmptyDict, EmptyDict, EmptyDict, 0)
    /\ exam_state = EmptyDict
    /\ node = "idle"
    /\ workflow_history = << >>
    /\ theme_state = EmptyDict

NextProcess ==
    \/ create_orchestrator
    \/ hosted_start_exam
    \/ hosted_get_next_question
    \/ hosted_submit_answer
    \/ hosted_get_performance_stats

SpecProcess == InitProcess /\ [][NextProcess]_vars

\* ========================================================================
\* Properties of the orchestrators
\* ========================================================================
Session == current_session
HoldsPlan(agent) == agent.theme_structure # EmptyDict
HasSession == current_session # EmptyDict
SameSession == /\ current_session # EmptyDict
               /\ current_session' # EmptyDict
               /\ current_session'.session_id = current_session.session_id

\* C1: after every call on ExamOrchestratorLangGraph the current session has
\* no more evaluations than questions and no more questions than
\* max_questions.
C1_CountsBounded ==
    (orchestrator_class = "standard" /\ HasSession) =>
        /\ Len(Session.evaluations) <= Len(Session.questions)
        /\ Len(Session.questions) <= max_questions

\* a standard session that asked max_questions questions, answered them all
\* and had one more get_next_question refused
C1_Witness ==
    /\ orchestrator_class = "standard"
    /\ HasSession
    /\ max_questions = MaxQ
    /\ Len(Session.questions) = max_questions
    /\ Len(Session.evaluations) = max_questions
    /\ ret.op = "get_next_question"
    /\ "message" \in DOMAIN ret.value

\* C3: every stored evaluation answers the question at its own index: its
\* question_number back-reference is its position in evaluations.
C3_IndexAligned ==
    HasSession =>
        \A i \in 1..Len(Session.evaluations) :
            /\ i <= Len(Session.questions)
            /\ Session.evaluations[i].question_number = i

\* C4: get_next_question appends a question only when every earlier question
\* of the session has its evaluation.
C4_QuestionAfterEvaluation ==
    [][(SameSession /\ Len(current_session'.questions) > Len(current_session.questions))
        => Len(current_session.evaluations) = Len(current_session.questions)]_vars

\* the text fields of a summary
SummaryTexts(summary) ==
    {summary.strengths, summary.weaknesses, summary.bloom_level,
     summary.question_type, summary.topic_level, summary.evaluation_type}

\* C5: no summary handed to generate_question has a field that is the text
\* of an answer submitted to the evaluation agent.
C5_NoAnswerTextInSummaries ==
    \A i \in 1..Len(question_input) : \A j \in 1..Len(evaluation_history) :
        ~IsBlank(evaluation_history[j].answer)
            => evaluation_history[j].answer \notin SummaryTexts(question_input[i])

LLMFailureErrors == {"pattern_analysis_failed", "final_report_failed"}

\* C6: complete_exam on a session that is completed and has its diagnostic
\* result returns that result's grade without an error, issues no completion
\* request and leaves diagnostic_result and session_history unchanged.
C6_CompleteIdempotent ==
    [][(/\ ret'.op = "complete_exam"
        /\ HasSession
        /\ Session.status = "completed"
        /\ Session.diagnostic_result # EmptyDict)
        => /\ ~IsError(ret'.value)
           /\ ret'.requests = 0
           /\ ret'.value.grade_info = Session.diagnostic_result.grade_info
           /\ current_session'.diagnostic_result = Session.diagnostic_result
           /\ session_history' = session_history]_vars

\* C7: force_complete on an in_progress session with at least one evaluation
\* completes the session, keeps every question and evaluation, and returns
\* an error only when the completion service failed.
C7_ForceCompleteCompletes ==
    [][(/\ ret'.op = "force_complete"
        /\ HasSession
        /\ Session.status = "in_progress"
        /\ Session.evaluations # << >>)
        => /\ current_session'.status = "completed"
           /\ current_session'.questions = Session.questions
           /\ current_session'.evaluations = Session.evaluations
           /\ IsError(ret'.value) => ret'.value.error \in LLMFailureErrors]_vars

\* the call ret' reports was made in a lifecycle state that does not allow it
WrongLifecycleState ==
    \/ /\ ret'.op \in {"submit_answer", "get_next_question"}
       /\ (~HasSession \/ Session.status # "in_progress")
    \/ /\ ret'.op = "submit_answer"
       /\ HasSession
       /\ (Session.questions = << >>
           \/ Len(Session.evaluations) >= Len(Session.questions))
    \/ /\ ret'.op = "complete_exam"
       /\ HasSession
       /\ (Session.status # "in_progress" \/ Session.evaluations = << >>)

\* C9: an operation called in the wrong lifecycle state returns an error,
\* issues no completion request and leaves questions, evaluations,
\* evaluation_summaries, status and end_time as they were.
C9_WrongStateRejected ==
    [][WrongLifecycleState
        => /\ IsError(ret'.value)
           /\ ret'.requests = 0
           /\ HasSession =>
                /\ current_session'.questions = Session.questions
                /\ current_session'.evaluations = Session.evaluations
                /\ current_session'.evaluation_summaries = Session.evaluation_summaries
                /\ current_session'.status = Session.status
                /\ current_session'.end_time = Session.end_time]_vars

\* C10: the status of a session is not_started, in_progress or completed,
\* and end_time is set only on a completed session.
C10_StatusLifecycle ==
    HasSession =>
        /\ Session.status \in {"not_started", "in_progress", "completed"}
        /\ Session.end_time # None => Session.status = "completed"

\* C16 as stated: can_continue() is False when len(questions) has reached
\* max_questions, when there is no session and when status is not
\* in_progress; it is True for an in_progress session with fewer than
\* max_questions questions and no unanswered question.
CannotContinue ==
    \/ ~HasSession
    \/ Session.status # "in_progress"
    \/ Len(Session.questions) >= max_questions
MayContinue ==
    /\ HasSession
    /\ Session.status = "in_progress"
    /\ Len(Session.questions) < max_questions
    /\ Len(Session.evaluations) = Len(Session.questions)

FromFailedRequest(evaluation) ==
    /\ evaluation.type = "detailed"
    /\ evaluation.raw_response.service_error

\* C18: a completion request that fails during evaluate_answer leaves no
\* entry in the evaluation agent's history and, through submit_answer, no
\* evaluation in the session; the call returns an error-tagged result.
C18_FailedRequestLeavesNothing ==
    /\ \A i \in 1..Len(evaluation_history) :
          ~FromFailedRequest(evaluation_history[i].evaluation)
    /\ HasSession =>
          \A i \in 1..Len(Session.evaluations) : ~FromFailedRequest(Session.evaluations[i])
    /\ (ret.op = "submit_answer" /\ ~IsError(ret.value)) => ~FromFailedRequest(ret.value)

\* the call ret' reports reached an agent, whose completion request failed
\* or whose validation rejected the outcome
FailedInAgent ==
    /\ HasSession
    /\ ret'.op \in {"get_next_question", "submit_answer"}
    /\ ret'.requests >= 1
    /\ \/ IsError(ret'.value)
       \/ ret'.op = "submit_answer" /\ FromFailedRequest(ret'.value)

\* C21: a get_next_question or submit_answer that fails on a completion
\* request or on validation returns an error object, appends exactly one
\* string to session.errors, leaves questions, evaluations and
\* evaluation_summaries as they were and keeps the status in_progress, so
\* that later calls on the session are accepted.
C21_FailedCallKeepsSession ==
    [][FailedInAgent
        => /\ IsError(ret'.value)
           /\ current_session' # EmptyDict
           /\ Len(current_session'.errors) = Len(Session.errors) + 1
           /\ SubSeq(current_session'.errors, 1, Len(Session.errors)) = Session.errors
           /\ current_session'.questions = Session.questions
           /\ current_session'.evaluations = Session.evaluations
           /\ current_session'.evaluation_summaries = Session.evaluation_summaries
           /\ current_session'.status = "in_progress"]_vars

\* the same, for the calls that do return an error
C21_ErrorReturnKeepsSession ==
    [][(FailedInAgent /\ IsError(ret'.value))
        => /\ current_session' # EmptyDict
           /\ Len(current_session'.errors) = Len(Session.errors) + 1
           /\ current_session'.questions = Session.questions
           /\ current_session'.evaluations = Session.evaluations
           /\ current_session'.evaluation_summaries = Session.evaluation_summaries
           /\ current_session'.status = "in_progress"]_vars

\* two question texts equal ignoring letter case
SameIgnoringCase(t1, t2) == t1.base = t2.base /\ t1.len = t2.len

\* what validation requires of the question at the end of a history
AcceptableLast(history) ==
    LET accepted == history[Len(history)]
    IN  /\ accepted.question.len >= 10
        /\ accepted.key_points # ""
        /\ \A i \in 1..(Len(history) - 1) :
              ~SameIgnoringCase(history[i].question, accepted.question)

\* C24: a get_next_question that reaches the question agent either has its
\* question accepted, which then has at least 10 characters, a non-empty
\* rubric and no earlier accepted question equal to it ignoring case, and is
\* appended to question_history and to session.questions; or it returns an
\* error and neither list grows.  No two entries of question_history are
\* equal ignoring case.
C24_OnlyValidQuestionsAccepted ==
    /\ [](\A i, j \in 1..Len(question_agent.question_history) :
            i # j => ~SameIgnoringCase(question_agent.question_history[i].question,
                                       question_agent.question_history[j].question))
    /\ [][(HasSession /\ ret'.op = "get_next_question" /\ ret'.requests >= 1) =>
            \/ /\ ~IsError(ret'.value)
               /\ Len(question_agent'.question_history) =
                      Len(question_agent.question_history) + 1
               /\ AcceptableLast(question_agent'.question_history)
               /\ Len(current_session'.questions) = Len(Session.questions) + 1
               /\ current_session'.questions[Len(current_session'.questions)].question =
                      question_agent'.question_history[
                          Len(question_agent'.question_history)].question
            \/ /\ IsError(ret'.value)
               /\ question_agent'.question_history = question_agent.question_history
               /\ current_session'.questions = Session.questions]_vars

\* a question rejected by validation after one question was accepted
C24_Witness ==
    /\ HasSession
    /\ ret.op = "get_next_question"
    /\ IsError(ret.value)
    /\ ret.value.error = "validation_errors"
    /\ Len(question_agent.question_history) = 1
    /\ Len(Session.questions) = 1

\* a call of get_next_question on an in_progress session that already holds
\* max_questions questions
NextQuestionAtLimit ==
    /\ ret'.op = "get_next_question"
    /\ HasSession
    /\ Session.status = "in_progress"
    /\ Len(Session.questions) = max_questions

\* C32: get_next_question on an in_progress session with len(questions) =
\* max_questions returns the end-of-exam marker (a message, neither a
\* question nor an error), issues no completion request and leaves the
\* session, its errors list included, and the agents unchanged.
C32_EndMarkerAtLimit ==
    [][NextQuestionAtLimit =>
          /\ DOMAIN ret'.value = {"message"}
          /\ ret'.requests = 0
          /\ current_session' = current_session
          /\ question_agent' = question_agent
          /\ evaluation_history' = evaluation_history
          /\ session_history' = session_history]_vars

\* the marker returned by the optimized orchestrator while the last of its
\* max_questions questions is still unanswered
C32_Witness ==
    /\ orchestrator_class = "optimized"
    /\ HasSession
    /\ Session.status = "in_progress"
    /\ Len(Session.questions) = max_questions
    /\ Len(Session.evaluations) < max_questions
    /\ ret.op = "get_next_question"
    /\ "message" \in DOMAIN ret.value

\* one summary for every evaluation of the session, none with the answer
SummaryPerEvaluation ==
    /\ Len(Session.evaluation_summaries) = Len(Session.evaluations)
    /\ \A i \in 1..Len(Session.evaluation_summaries) :
          "answer" \notin DOMAIN Session.evaluation_summaries[i]

\* C33: every successful submit_answer appends exactly one summary to the
\* session's summary list and one full evaluation to its evaluation list, so
\* the two lists have the same length in every reachable state, and no
\* summary carries the answer field of the evaluations.
C33_SummaryPerEvaluation == HasSession => SummaryPerEvaluation

\* the same on ExamOrchestratorLangGraph alone
C33_StandardSummaryPerEvaluation ==
    (orchestrator_class = "standard" /\ HasSession) =>
        /\ SummaryPerEvaluation
        /\ \A i \in 1..Len(Session.evaluations) :
              "answer" \in DOMAIN Session.evaluations[i]

SessionHoldsPlan == HasSession /\ Session.theme_structure # EmptyDict

\* C34: once start_exam has stored a plan in the session, the question
\* agent holds that same plan
C34_PlanSharedWithQuestionStage ==
    SessionHoldsPlan => question_agent.theme_structure = Session.theme_structure

\* the question agent of an orchestrator never holds a plan, and no question
\* it generates names a level of the taxonomy
OrchestratorAgentWithoutPlan ==
    /\ ~HoldsPlan(question_agent)
    /\ question_agent.current_theme_position = 0
    /\ HasSession =>
          \A i \in 1..Len(Session.questions) :
              "bloom_level" \notin DOMAIN Session.questions[i]

\* the histories the agents of the orchestrator hold are those of a new object
FreshHistory ==
    /\ Len(get_evaluation_summaries_for_question_agent(evaluation_history))
           = Len(Session.evaluations)
    /\ question_agent.question_history = << >>
    /\ question_agent.current_theme_position = 0

\* C36: right after start_exam the agents hold no history of earlier
\* attempts: as many evaluation summaries as the new session has evaluations,
\* no remembered question, cursor 0
C36_AttemptStartsFresh ==
    (ret.op = "start_exam" /\ HasSession) => FreshHistory

\* the first attempt on an orchestrator starts fresh, and so does one started
\* right after reset_orchestrator
FirstAttemptStartsFresh ==
    (ret.op = "start_exam" /\ HasSession /\ sessions_started = 1) => FreshHistory
AttemptAfterResetStartsFresh ==
    [][(ret.op = "reset_orchestrator" /\ ret'.op = "start_exam") => FreshHistory']_vars

\* within an attempt that started fresh, the summaries handed to
\* generate_question are as many as the session's evaluations
SummariesMatchEvaluations ==
    [][(ret'.op = "get_next_question" /\ ret'.requests > 0 /\ sessions_started = 1)
         => Len(question_input') = Len(current_session.evaluations)]_vars

\* ========================================================================
\* Properties of the workflow
\* ========================================================================

\* C2: after every node of a run of start_exam_workflow the state has no
\* more evaluations than questions.
C2_EvaluationsWithinQuestions ==
    exam_state # EmptyDict => Len(exam_state.evaluations) <= Len(exam_state.questions)

\* a run of the workflow graph is between its first node and END
WfRunning == orchestrator_class = "workflow" /\ node \notin {"idle", "END"}
WfFinished == orchestrator_class = "workflow" /\ node = "END"

\* C19: once the state of a run holds an error, no node other than
\* finalize_results issues a completion request or changes questions,
\* evaluations, evaluation_summaries or status.
C19_ErrorStopsNodes ==
    [][(WfRunning /\ exam_state.errors # << >> /\ node # "finalize_results") =>
          /\ ret'.requests = ret.requests
          /\ exam_state'.questions = exam_state.questions
          /\ exam_state'.evaluations = exam_state.evaluations
          /\ exam_state'.evaluation_summaries = exam_state.evaluation_summaries
          /\ exam_state'.status = exam_state.status]_vars

C23_CursorStepsWithQuestions ==
    [][(orchestrator_class = "workflow" /\ HoldsPlan(question_agent)) =>
          question_agent'.current_theme_position =
              IF /\ node = "generate_question"
                 /\ Len(exam_state'.questions) = Len(exam_state.questions) + 1
              THEN question_agent.current_theme_position + 1
              ELSE question_agent.current_theme_position]_vars

\* a guided run in which the first question was accepted and evaluated and
\* the second generation was rejected: the cursor stands at 1
C23_Witness ==
    /\ orchestrator_class = "workflow"
    /\ HoldsPlan(question_agent)
    /\ node = "wait_for_answer"
    /\ Len(exam_state.questions) = 1
    /\ Len(exam_state.evaluations) = 1
    /\ exam_state.errors # << >>
    /\ question_agent.current_theme_position = 1

\* ========================================================================
\* Properties of the theme agent
\* ========================================================================
Distributed ==
    /\ theme_state # EmptyDict
    /\ theme_state.questions_distribution # EmptyDict

DistributionExact ==
    /\ DistTotal(theme_state.questions_distribution) = theme_state.total_questions
    /\ \A level \in DOMAIN bloom_weight : theme_state.questions_distribution[level] >= 1

\* C8 as stated: for every total_questions >= 1 the counts computed by
\* _distribute_questions_node sum to total_questions and each is at least 1.
C8_DistributionExactFromOne ==
    (Distributed /\ theme_state.total_questions >= 1) => DistributionExact

\* C8 amended: for every total_questions >= 6 (one question for each of the
\* six levels) the counts sum to total_questions and each is at least 1.
C8_DistributionExactFromSix ==
    (Distributed /\ theme_state.total_questions >= 6) => DistributionExact

\* a plan for at least six questions whose rounded counts the correction
\* loop had to change
C8_Witness ==
    /\ Distributed
    /\ theme_state.total_questions >= 6
    /\ \E level \in DOMAIN bloom_weight :
          theme_state.questions_distribution[level]
              # level_count(theme_state.total_questions, level)

ThemeFinished ==
    /\ orchestrator_class = "theme_agent"
    /\ node = "END"
    /\ ret.op = "generate_theme_structure"

\* every completion request of the run was answered
ThemeServiceWorked ==
    /\ theme_state.raw_theme_structure # None
    /\ theme_state.question_guidelines # EmptyDict

\* the number of +-1 steps the correction loop applied to the rounded counts
Adjustments ==
    SumSeq([i \in 1..Len(bloom_sequence) |->
               Abs(theme_state.questions_distribution[bloom_sequence[i]]
                   - level_count(theme_state.total_questions, bloom_sequence[i]))])

\* the reconciliation of the counts takes at most three +-1 adjustments,
\* whatever total_questions is
AdjustmentsBounded == Distributed => Adjustments <= Len(priority_levels)

\* C31: for total_questions in 1..5, fewer than the six levels, the count
\* reconciliation finishes after at most three +-1 adjustments and
\* generate_theme_structure yields a plan, not an error result.
C31_SmallExamYieldsPlan ==
    (ThemeFinished /\ theme_state.total_questions \in 1..5 /\ ThemeServiceWorked) =>
        /\ Adjustments <= Len(priority_levels)
        /\ ~IsError(ret.value)

\* ========================================================================
\* Properties of the reconciler
\* ========================================================================
Reconciled == orchestrator_class = "reconciler" /\ ret.op = "_parse_detailed_evaluation"
Reply == ret.args.response
Criterion(x) == IF x = NoScore THEN 0 ELSE x
CriteriaSum ==
    Criterion(Reply.correctness) + Criterion(Reply.completeness)
        + Criterion(Reply.understanding)
AllCriteriaZero ==
    /\ Criterion(Reply.correctness) = 0
    /\ Criterion(Reply.completeness) = 0
    /\ Criterion(Reply.understanding) = 0
ReportedParses == Reply.total \notin {NoScore, Unparsable}
\* |reported - calculated| > 2.0, reported = total/10, calculated = sum/3
DifferenceOverTwo == Abs(3 * Reply.total - 10 * CriteriaSum) > 60
\* x10 tenths is num/den rounded to one decimal
Nearest(x10, num, den) == 2 * Abs(x10 * den - 10 * num) <= den
Total == ret.value.total_score
Meta == ret.value.evaluation_metadata

\* C11 as stated: calculated is the mean of the three criteria; a parsed
\* aggregate more than 2.0 away gives the calculated score and a warning; a
\* parsed aggregate within 2.0 (2.0 included) gives (reported+calculated)/2;
\* an absent or unparsable aggregate gives the calculated score.
C11_ReconciledTotal ==
    Reconciled =>
        /\ Nearest(Meta.calculated_score, CriteriaSum, 3)
        /\ (ReportedParses /\ DifferenceOverTwo) =>
               /\ Nearest(Total, CriteriaSum, 3)
               /\ Meta.consistency_warning # None
        /\ (ReportedParses /\ ~DifferenceOverTwo) =>
               Nearest(Total, 3 * Reply.total + 10 * CriteriaSum, 60)
        /\ ~ReportedParses => Nearest(Total, CriteriaSum, 3)

\* C11 amended: the same rule, except that with all three criteria 0 the
\* total is 0 whatever aggregate within 2.0 was reported.
C11_ReconciledTotalUnlessAllZero ==
    Reconciled =>
        /\ Nearest(Meta.calculated_score, CriteriaSum, 3)
        /\ (ReportedParses /\ DifferenceOverTwo) =>
               /\ Nearest(Total, CriteriaSum, 3)
               /\ Meta.consistency_warning # None
        /\ (ReportedParses /\ ~DifferenceOverTwo /\ ~AllCriteriaZero) =>
               Nearest(Total, 3 * Reply.total + 10 * CriteriaSum, 60)
        /\ (ReportedParses /\ ~DifferenceOverTwo /\ AllCriteriaZero) => Total = 0
        /\ ~ReportedParses => Nearest(Total, CriteriaSum, 3)

\* an aggregate exactly 2.0 above a nonzero mean, averaged with it
C11_Witness ==
    /\ Reconciled
    /\ ReportedParses
    /\ 3 * Reply.total - 10 * CriteriaSum = 60
    /\ CriteriaSum > 0
    /\ 60 * Total = 10 * (3 * Reply.total + 10 * CriteriaSum)
    /\ Meta.consistency_warning = None

\* C12: with all three criteria 0 the total is 0 for every reported
\* aggregate, and a warning is emitted whenever a nonzero aggregate was
\* reported.
C12_ZeroCriteriaZeroTotal ==
    (Reconciled /\ AllCriteriaZero) =>
        /\ Total = 0
        /\ (ReportedParses /\ Reply.total > 0) => Meta.consistency_warning # None

\* criteria [0,0,0] with 1.5 reported: the average 0.75 was forced to 0
C12_Witness ==
    /\ Reconciled
    /\ AllCriteriaZero
    /\ Reply.total = 15
    /\ Total = 0
    /\ Meta.consistency_warning = "all_criteria_zero"

\* C13: a parsed aggregate within 2.0 of the mean, with not all criteria 0,
\* gives the method tag weighted_average and no consistency warning.
C13_WeightedAverageNoWarning ==
    (Reconciled /\ ReportedParses /\ ~DifferenceOverTwo /\ ~AllCriteriaZero) =>
        /\ Meta.score_method = "weighted_average"
        /\ Meta.consistency_warning = None

\* criteria [8,6,7] with 7.0 reported: calculated 7.0, total 7.0
C13_Witness ==
    /\ Reconciled
    /\ Reply.correctness = 8 /\ Reply.completeness = 6 /\ Reply.understanding = 7
    /\ Reply.total = 70
    /\ Meta.calculated_score = 70
    /\ Total = 70
    /\ Meta.score_method = "weighted_average"
    /\ Meta.consistency_warning = None

\* C14: with every criterion in 0..10 and a reported aggregate that parses
\* (values above 10 included) the reconciled total_score lies in [0,10].
C14_TotalWithinRange ==
    (/\ Reconciled
     /\ ReportedParses
     /\ Criterion(Reply.correctness) \in 0..10
     /\ Criterion(Reply.completeness) \in 0..10
     /\ Criterion(Reply.understanding) \in 0..10) => Total \in 0..100

\* ========================================================================
\* Properties of the evaluation agent
\* ========================================================================
Evaluated == orchestrator_class = "evaluation_agent" /\ ret.op = "evaluate_answer"
ReconciledFields(evaluation) ==
    <<evaluation.total_score, evaluation.evaluation_metadata.score_method,
      evaluation.evaluation_metadata.consistency_warning>>

EmptyAnswerEvaluation ==
    /\ ~IsError(ret.value)
    /\ ret.value.type = "empty"
    /\ ret.value.total_score = 0
    /\ ret.value.comment = empty_result.comment
    /\ ret.requests = 0
    /\ Len(evaluation_history) >= 1
    /\ evaluation_history[Len(evaluation_history)].evaluation = ret.value
    /\ evaluation_history[Len(evaluation_history)].answer = ret.args.student_answer
    /\ LET summaries == get_evaluation_summaries_for_question_agent(evaluation_history)
       IN  /\ Len(summaries) = Len(evaluation_history)
           /\ summaries[Len(summaries)].total_score = 0
           /\ summaries[Len(summaries)].evaluation_type = "empty"

\* a missing, empty or whitespace-only student_answer
AnswerMissingOrBlank == ret.args.student_answer \in {None, "", " "}

\* C17 as stated: evaluate_answer with a missing or whitespace-only answer
\* returns a non-error Evaluation with total_score 0 and the fixed comment,
\* issues no completion request and leaves a summary and a history entry.
C17_BlankAnswerEmptyPath ==
    (Evaluated /\ AnswerMissingOrBlank) => EmptyAnswerEvaluation

\* C17 amended: the same for a call whose question text is not empty.
C17_BlankAnswerEmptyPathWithQuestion ==
    (Evaluated /\ AnswerMissingOrBlank /\ ret.args.question.len > 0)
        => EmptyAnswerEvaluation

\* a whitespace-only answer to a question, evaluated without a request
C17_Witness ==
    /\ Evaluated
    /\ ret.args.student_answer = " "
    /\ ret.args.question.len > 0
    /\ ret.value.type = "empty"
    /\ ret.requests = 0
    /\ Len(evaluation_history) = 1

\* ========================================================================
\* Properties of the question agent
\* ========================================================================
QuestionAsked == ret.op = "generate_question"
QuestionAccepted == QuestionAsked /\ ~IsError(ret.value)

\* the number of questions a plan gives the levels before the k-th one
CountsBefore(distribution, k) ==
    SumSeq([j \in 1..(k - 1) |-> distribution[bloom_sequence[j]]])

\* the positions of the levels whose cumulative range contains index i
LevelsAt(distribution, i) ==
    {k \in 1..Len(bloom_sequence) :
        /\ CountsBefore(distribution, k) <= i
        /\ i < CountsBefore(distribution, k) + distribution[bloom_sequence[k]]}

\* level_for_index(i): the level whose cumulative range contains i, None
\* (exhausted) when there is none
LevelForIndex(distribution, i) ==
    IF LevelsAt(distribution, i) = {} THEN None
    ELSE bloom_sequence[CHOOSE k \in LevelsAt(distribution, i) : TRUE]

\* the texts of the questions an agent has accepted
PriorQuestionTexts(agent) ==
    [i \in 1..Len(agent.question_history) |-> agent.question_history[i].question]

\* the request of the call ret' reports was built on the guided template at
\* the level of the agent's cursor
GuidedRequest ==
    /\ ret'.template = "theme_guided"
    /\ ret'.prompt.question_requirements =
           LevelForIndex(question_agent.theme_structure.questions_distribution,
                         question_agent.current_theme_position)
    /\ ret'.prompt.evaluation_characteristics = ret'.args.evaluation_summaries

\* ... on the contextual template, fed with the prior question texts and the
\* summary list only
ContextualRequest ==
    /\ ret'.template = "contextual"
    /\ DOMAIN ret'.prompt =
           {"question_number", "previous_questions", "evaluation_characteristics"}
    /\ ret'.prompt.previous_questions = PriorQuestionTexts(question_agent)
    /\ ret'.prompt.evaluation_characteristics = ret'.args.evaluation_summaries

\* C22 as stated: the first question with no history is asked on the initial
\* template; otherwise an agent in taxonomy mode asks on the guided template
\* at level_for_index(cursor); otherwise the contextual template is used,
\* fed with the prior question texts and the summary list only.
C22_TemplateFirstQuestionInitial ==
    [][ret'.op = "generate_question" =>
        LET first == /\ ret'.args.question_number = 1
                     /\ ret'.args.evaluation_summaries = << >>
        IN  /\ first => ret'.template = "initial"
            /\ (~first /\ HoldsPlan(question_agent)) => GuidedRequest
            /\ (~first /\ ~HoldsPlan(question_agent)) => ContextualRequest]_vars

\* C22 amended: an agent holding a plan asks every question on the guided
\* template at level_for_index(cursor), and on the contextual template once
\* the cursor is past the end of the plan; an agent without a plan asks on
\* the initial template when the question number is 1 or the summary list is
\* empty, and otherwise on the contextual template, fed with the prior
\* question texts and the summary list only.
C22_TemplatePlanFirst ==
    [][ret'.op = "generate_question" =>
        LET unguided == \/ ret'.args.question_number = 1
                        \/ ret'.args.evaluation_summaries = << >>
            exhausted ==
                LevelForIndex(question_agent.theme_structure.questions_distribution,
                              question_agent.current_theme_position) = None
        IN  IF HoldsPlan(question_agent)
            THEN IF exhausted THEN ContextualRequest ELSE GuidedRequest
            ELSE IF unguided THEN ret'.template = "initial" /\ ret'.prompt = EmptyDict
            ELSE ContextualRequest]_vars

\* an agent holding a plan has had its first question, asked with no
\* summaries, accepted from the guided template at the plan's first level
C22_Witness ==
    /\ QuestionAccepted
    /\ HoldsPlan(question_agent)
    /\ ret.args.question_number = 1
    /\ ret.args.evaluation_summaries = << >>
    /\ question_agent.current_theme_position = 1
    /\ ret.template = "theme_guided"
    /\ ret.value.bloom_level = "remember"

\* ========================================================================
\* Properties of the diagnostic agent
\* ========================================================================
Diagnosed == ret.op = "diagnose_exam_results"
DiagnosedScores ==
    [i \in 1..Len(ret.args.evaluations) |-> ret.args.evaluations[i].total_score]

\* the entry condition: both lists non-empty and of one length
DiagnosableInput ==
    /\ ret.args.questions # << >>
    /\ ret.args.evaluations # << >>
    /\ Len(ret.args.questions) = Len(ret.args.evaluations)

\* both completion requests of the call were answered
ServiceWorked ==
    /\ ret.completion # EmptyDict
    /\ ret.completion.first.ok
    /\ ret.completion.second.ok

\* C25: diagnose_exam_results on an empty question list, an empty
\* evaluation list or lists of different lengths returns an error, issues no
\* completion request and appends nothing to diagnostic_history; on lists of
\* one non-zero length, with both requests answered, it returns a result
\* with statistics, grade_info, recommendations and critical_areas.
C25_DiagnosticEntryCondition ==
    Diagnosed =>
        /\ ~DiagnosableInput =>
              /\ IsError(ret.value)
              /\ ret.requests = 0
              /\ diagnostic_history = << >>
        /\ (DiagnosableInput /\ ServiceWorked) =>
              /\ ~IsError(ret.value)
              /\ {"statistics", "grade_info", "recommendations", "critical_areas"}
                     \subseteq DOMAIN ret.value

\* three questions diagnosed against two evaluations
C25_Witness ==
    /\ Diagnosed
    /\ Len(ret.args.questions) = 3
    /\ Len(ret.args.evaluations) = 2
    /\ IsError(ret.value)
    /\ ret.requests = 0
    /\ diagnostic_history = << >>

\* the band of a percentage given as the fraction num / den
GradeBand(num, den) ==
    IF num >= 90 * den THEN "excellent"
    ELSE IF num >= 75 * den THEN "good"
    ELSE IF num >= 60 * den THEN "satisfactory"
    ELSE IF num >= 40 * den THEN "poor"
    ELSE "critical"

\* C26: the grade of a diagnosed non-empty list of scores is the band of
\* percentage = total_score / (10 * count) * 100, a percentage of exactly
\* 90, 75, 60 or 40 falling in the upper band.
C26_GradeBands ==
    (Diagnosed /\ ~IsError(ret.value)) =>
        ret.value.grade_info.grade =
            GradeBand(SumSeq(DiagnosedScores), Len(DiagnosedScores))

\* ========================================================================
\* Properties of a plan walked on its own
\* ========================================================================
LevelRequested == ret.op = "get_next_bloom_level_requirements"

\* the place of a returned level in the fixed order, past the last for None
LevelRank(value) ==
    IF \E k \in 1..Len(bloom_sequence) : bloom_sequence[k] = value
    THEN CHOOSE k \in 1..Len(bloom_sequence) : bloom_sequence[k] = value
    ELSE Len(bloom_sequence) + 1

\* the returned level is the one whose cumulative range holds the position,
\* and None exactly past the sum of the counts
LevelOfRange ==
    LevelRequested =>
        LET distribution == ret.args.curriculum.questions_distribution
            i == ret.args.current_position
        IN  /\ ret.value = None <=> i >= DistTotal(distribution)
            /\ ret.value # None =>
                  \E k \in 1..Len(bloom_sequence) :
                      /\ ret.value = bloom_sequence[k]
                      /\ CountsBefore(distribution, k) <= i
                      /\ i < CountsBefore(distribution, k) + distribution[bloom_sequence[k]]

\* of two calls on the same plan, the one at the later position returns the
\* same or a later level
LevelNonDecreasing ==
    (/\ LevelRequested
     /\ ret'.op = "get_next_bloom_level_requirements"
     /\ ret'.args.current_position >= ret.args.current_position)
    => LevelRank(ret'.value) >= LevelRank(ret.value)

\* C27: for every plan and every 0-based position i,
\* get_next_bloom_level_requirements returns the level L of the fixed order
\* remember .. create with (counts before L) <= i < (counts before L) +
\* count[L], returns None exactly when i >= the sum of all counts, and the
\* level it returns never goes back as i grows.
C27_LevelForIndex == [] LevelOfRange /\ [][LevelNonDecreasing]_vars

\* a call that lands on the first position of analyze in a plan that gives
\* apply no question
C27_Witness ==
    /\ LevelRequested
    /\ ret.value = "analyze"
    /\ ret.args.curriculum.questions_distribution["apply"] = 0
    /\ ret.args.current_position =
           CountsBefore(ret.args.curriculum.questions_distribution, 4)
    /\ ret.args.current_position > 0

\* ========================================================================
\* Properties of orchestrators hosted side by side
\* ========================================================================
\* the orchestrator that made the call ret reports
Caller(call) == Get(call.args, "orchestrator", 0)

\* what the operations of orchestrator k read of its own objects: session,
\* agents and their histories, and the completion clients its agents own
OwnState(k) == orchestrators[k]

\* the counters of the completion client the operations of orchestrator k
\* read: get_performance_stats and submit_answer report the shared client's
ClientRead(k) ==
    IF Hosted(k) /\ orchestrators[k].class = "optimized"
    THEN shared_llm_stats(shared_llm)
    ELSE EmptyDict

OthersKeep(k) ==
    (Hosted(k) /\ Caller(ret') # k) =>
        /\ OwnState(k)' = OwnState(k)
        /\ ClientRead(k)' = ClientRead(k)

\* C28: two attempts hosted in one process by two orchestrators share no
\* mutable state: a call on one orchestrator changes nothing the other one
\* reads, be it session state, agent histories, the plan, or the state and
\* counters of the completion client.
C28_NoSharedState == [][\A k \in 1..MaxOrchestrators : OthersKeep(k)]_vars

\* the part that holds: a call on one orchestrator leaves the session, the
\* agents and the histories of every other orchestrator alone
C28_OwnStateKept ==
    [][\A k \in 1..MaxOrchestrators :
          (Hosted(k) /\ Caller(ret') # k) => OwnState(k)' = OwnState(k)]_vars

\* two optimized orchestrators, one with a request counted on the shared
\* client while the other has a session under way
C28_SharedClientReached ==
    /\ Hosted(1) /\ Hosted(2)
    /\ orchestrators[1].class = "optimized"
    /\ orchestrators[2].class = "optimized"
    /\ orchestrators[2].current_session # EmptyDict
    /\ Caller(ret) = 1
    /\ shared_llm.request_count > 0

\* ========================================================================
\* Properties of the node trace of a workflow run
\* ========================================================================
WorkflowRun == orchestrator_class = "workflow"

\* the number of times a node has run since the graph was invoked
NodeCount(name) ==
    Cardinality({i \in 1..Len(executed_nodes) : executed_nodes[i] = name})

OnceNodes == {"initialize_exam", "create_theme_structure", "start_exam",
              "complete_exam", "run_diagnostics", "finalize_results"}
LoopNodes == {"generate_question", "wait_for_answer", "evaluate_answer",
              "update_progress"}

\* C29: within one invocation of the exam workflow graph
\* (start_exam_workflow) no node is executed more than once.
C29_NoNodeTwice ==
    WorkflowRun => \A name \in OnceNodes \cup LoopNodes : NodeCount(name) <= 1

\* C29, amended: the nodes outside the loop run at most once per
\* invocation, and each node of the loop runs at most max_questions times.
C29_NodeRunsBounded ==
    WorkflowRun =>
        /\ \A name \in OnceNodes : NodeCount(name) <= 1
        /\ \A name \in LoopNodes : NodeCount(name) <= max_questions

\* a finished run that went through the loop twice
C29_Witness ==
    /\ WorkflowRun
    /\ node = "END"
    /\ NodeCount("generate_question") = 2
    /\ NodeCount("update_progress") = 2

\* the edges of the exam graph, as pairs of nodes that may run one after
\* the other
GraphEdges ==
    {<<"initialize_exam", "create_theme_structure">>,
     <<"initialize_exam", "start_exam">>,
     <<"create_theme_structure", "start_exam">>,
     <<"start_exam", "generate_question">>,
     <<"generate_question", "wait_for_answer">>,
     <<"wait_for_answer", "evaluate_answer">>,
     <<"evaluate_answer", "update_progress">>,
     <<"update_progress", "generate_question">>,
     <<"update_progress", "complete_exam">>,
     <<"complete_exam", "run_diagnostics">>,
     <<"run_diagnostics", "finalize_results">>}

TraceFollowsGraph ==
    WorkflowRun =>
        /\ executed_nodes # << >> => executed_nodes[1] = "initialize_exam"
        /\ \A i \in 1..(Len(executed_nodes) - 1) :
              <<executed_nodes[i], executed_nodes[i + 1]>> \in GraphEdges
        /\ \A name \in {"complete_exam", "run_diagnostics", "finalize_results"} :
              NodeCount(name) <= 1
        /\ node = "END" =>
              /\ Len(executed_nodes) >= 3
              /\ executed_nodes[Len(executed_nodes)] = "finalize_results"

\* the node that runs second is create_theme_structure exactly when the
\* state initialize_exam left is guided, holds no plan and has no error
ThemeStepDecided ==
    (WorkflowRun /\ Len(executed_nodes) = 1 /\ Len(executed_nodes') = 2) =>
        (executed_nodes'[2] = "create_theme_structure"
            <=> /\ exam_state.use_theme_structure
                /\ exam_state.theme_structure = EmptyDict
                /\ exam_state.errors = << >>)

CleanRun == WfFinished /\ exam_state.errors = << >>

C37_MethodTag ==
    Reconciled =>
        /\ Meta.score_method \in {"criteria_average", "weighted_average"}
        /\ (Meta.score_method = "criteria_average") <=> ~ReportedParses
        /\ (ReportedParses /\ DifferenceOverTwo) =>
               /\ Meta.score_method = "weighted_average"
               /\ Total = Meta.calculated_score
               /\ Nearest(Total, CriteriaSum, 3)

\* criteria [8,6,7] with 10.0 reported: total 7.0, tagged weighted_average
C37_Witness ==
    /\ Reconciled
    /\ Reply.correctness = 8 /\ Reply.completeness = 6 /\ Reply.understanding = 7
    /\ Reply.total = 100
    /\ DifferenceOverTwo
    /\ Total = 70
    /\ Meta.score_method = "weighted_average"
    /\ Meta.consistency_warning # None

\* ------------------------------------------------------------------------
Completing(op) == op \in {"complete_exam", "force_complete"}
\* a call of complete_exam or force_complete that reaches the diagnosis
ReachesDiagnosis ==
    /\ orchestrator_class = "standard"
    /\ Completing(ret'.op)
    /\ HasSession /\ Session.status = "in_progress" /\ Session.evaluations # << >>
\* the session of an attempt whose diagnosis failed
DiagnosisFailed ==
    /\ orchestrator_class = "standard"
    /\ HasSession
    /\ Session.status = "completed"
    /\ Session.diagnostic_result = EmptyDict
InHistory(session) ==
    \E i \in 1..Len(session_history) : session_history[i] = session.session_id

\* C38: a diagnosis failing inside complete_exam leaves the session
\* completed with end_time set, without a diagnostic result and outside
\* session_history; every later complete_exam or force_complete on that
\* session returns an error and changes nothing, so the session never gets a
\* diagnostic result
C38_FailedDiagnosisIsFinal ==
    /\ [][(ReachesDiagnosis /\ IsError(ret'.value)) =>
             /\ current_session'.status = "completed"
             /\ current_session'.end_time # None
             /\ current_session'.diagnostic_result = EmptyDict
             /\ session_history' = session_history
             /\ ~InHistory(current_session)']_vars
    /\ [][(DiagnosisFailed /\ Completing(ret'.op)) =>
             /\ IsError(ret'.value)
             /\ ret'.requests = 0
             /\ current_session' = current_session
             /\ session_history' = session_history]_vars
    /\ [][(DiagnosisFailed /\ SameSession) =>
             /\ current_session'.diagnostic_result = EmptyDict
             /\ ~InHistory(current_session)']_vars

\* complete_exam called again on a session whose diagnosis failed
C38_Witness ==
    /\ DiagnosisFailed
    /\ Session.end_time # None
    /\ Session.errors[Len(Session.errors)] = "diagnostic_error"
    /\ session_history = << >>
    /\ ret.op = "complete_exam"
    /\ ret.value = [error |-> "exam_already_completed"]
====
